---------------------------- MODULE Spec2Model ----------------------------
(***************************************************************************)
(* Verification model of the subset-digest accumulators (naive, power-sum, *)
(* CBF, IBLT), of the additive multiset hash that anchors them, and of the *)
(* power-sum quACK.                                                        *)
(*                                                                         *)
(* Scaling.  TLC's integers are 32-bit, so the machine word of the program *)
(* (u32) is modelled with WordBits = 4 bits instead of 32, and every       *)
(* constant that is tied to the word is scaled with it, keeping the        *)
(* relations the code relies on:                                           *)
(*   LARGE_PRIME   4294967029 (a prime in (2^31, 2^32))  -> 13 in (2^3,2^4) *)
(*   DJB_MASK      2^31 - 1                               -> 2^3 - 1 = 7    *)
(*   NBYTES_HASH   32 bytes (sums modulo 2^256)           -> 2 bytes        *)
(* so that, as in the program, a masked image is always below the prime,   *)
(* two masked images can add up to the prime, and a full image can be      *)
(* at or above the prime.                                                  *)
(***************************************************************************)
EXTENDS Integers, Sequences, FiniteSets, TLC

(***************************************************************************)
(* Bounds of the model.                                                    *)
(***************************************************************************)
MaxLog == 3
MaxInject == 2
MaxThreshold == 2
MaxCpus == 2
MaxAdds == 3
NumWorkers == 2
MaxPackets == 4
MaxConns == 2
MaxSent == 3
MaxRecv == 2
MaxQThreshold == 3

(***************************************************************************)
(* Program constants (scaled as described above).                          *)
(***************************************************************************)
WordBits == 4
LARGE_PRIME == 13
NBYTES_HASH == 2

RECURSIVE Pow(_, _)
Pow(b, n) == IF n = 0 THEN 1 ELSE b * Pow(b, n - 1)

WordMod == Pow(2, WordBits)
DJB_MASK == Pow(2, WordBits - 1) - 1
HashMod == Pow(256, NBYTES_HASH)

(***************************************************************************)
(* Generic helpers on sequences and on multisets written as functions.     *)
(***************************************************************************)
Max(a, b) == IF a > b THEN a ELSE b

Min(a, b) == IF a < b THEN a ELSE b

RECURSIVE SumSeq(_)
SumSeq(s) == IF s = <<>> THEN 0 ELSE Head(s) + SumSeq(Tail(s))

CountIn(s, x) == Cardinality({i \in 1..Len(s) : s[i] = x})

RECURSIVE SetToSeq(_)
SetToSeq(S) ==
    IF S = {} THEN <<>>
    ELSE LET m == CHOOSE x \in S : \A y \in S : x <= y
         IN <<m>> \o SetToSeq(S \ {m})

\* bitwise AND / XOR of two words, bit by bit
RECURSIVE BitAnd(_, _)
BitAnd(a, b) ==
    IF a = 0 \/ b = 0 THEN 0
    ELSE (a % 2) * (b % 2) + 2 * BitAnd(a \div 2, b \div 2)

RECURSIVE BitXor(_, _)
BitXor(a, b) ==
    IF a = 0 THEN b
    ELSE IF b = 0 THEN a
    ELSE ((a + b) % 2) + 2 * BitXor(a \div 2, b \div 2)

(***************************************************************************)
(* Packet elements.  An element is an opaque byte string; the model names  *)
(* the byte strings 1..NumElems and fixes the two hashes of each one.      *)
(* DjbTable[e] is the 32-bit DJB (x33a) image of element e:                *)
(*   1 -> 0    an element whose image is 0                                 *)
(*   2 -> 5                                                                *)
(*   3 -> 13   differs from 5 only in the top bit: same masked image as 2  *)
(*   4 -> 6                                                                *)
(*   5 -> 5    a full preimage collision with element 2                    *)
(*   6 -> 7    7 + 6 = LARGE_PRIME                                         *)
(***************************************************************************)
NumElems == 4
DjbTable == <<0, 5, 13, 6, 5, 7, 2, 10>>
Elems == 1..NumElems
Nonces == {0, 1}

\* bloom_sd::elem_to_u32
elem_to_u32(e) == DjbTable[e]

\* SHA3-256(bit || val), truncated to the model's hash width.  hash_fn(1, e)
\* is a power of HBase, so that the sum over a multiset with fewer than
\* HBase copies of each element determines the multiset (the multiset hash
\* is treated as collision-free); hash_fn(0, nonce) is close to the top of
\* the range, so that sums do wrap around.
HBase == MaxLog + MaxInject + 2
hash_fn(bit, val) ==
    IF bit = 0 THEN (HashMod - 7 - 11 * val) % HashMod
    ELSE Pow(HBase, val - 1) % HashMod


(***************************************************************************)
(* Additive multiset hash (digest/src/mset.rs).  A hash value [u8; N] is   *)
(* written as the integer it encodes in little-endian order.               *)
(***************************************************************************)
RECURSIVE to_bytes_le(_)
to_bytes_le(n) ==
    IF n < 256 THEN <<n>> ELSE <<n % 256>> \o to_bytes_le(n \div 256)

RECURSIVE from_bytes_le(_)
from_bytes_le(bytes) ==
    IF bytes = <<>> THEN 0 ELSE Head(bytes) + 256 * from_bytes_le(Tail(bytes))

\* an addition that keeps the high NBYTES_HASH bytes of the sum
add_hashes_high(a, b) ==
    LET c == to_bytes_le(a + b)
    IN from_bytes_le(SubSeq(c, Max(1, Len(c) - NBYTES_HASH + 1), Len(c)))

\* add two hashes then modulo 2^(8 * NBYTES_HASH): the sum's little-endian
\* bytes, of which the first NBYTES_HASH are copied into a zeroed array
add_hashes(a, b) ==
    LET c == to_bytes_le(a + b)
        len == Min(NBYTES_HASH, Len(c))
        hash == [i \in 1..NBYTES_HASH |-> IF i <= len THEN c[i] ELSE 0]
    IN from_bytes_le(hash)

new_with_seed(nonce) ==
    [hash |-> hash_fn(0, nonce), count |-> 0, nonce |-> nonce]

DigestAdd(d, elem) ==
    [d EXCEPT !.hash = add_hashes(@, hash_fn(1, elem)), !.count = @ + 1]

RECURSIVE AddAllHashes(_, _)
AddAllHashes(h, elems) ==
    IF elems = <<>> THEN h
    ELSE AddAllHashes(add_hashes(h, hash_fn(1, Head(elems))), Tail(elems))

DigestAddAll(d, elems) ==
    [d EXCEPT !.hash = AddAllHashes(@, elems), !.count = @ + Len(elems)]

\* a comparison that looks at the counts only
DigestEqualsCountOnly(self, other) == self.count = other.count

DigestEquals(self, other) ==
    IF self.count # other.count THEN FALSE
    ELSE LET lhs == add_hashes(self.hash, hash_fn(0, other.nonce))
             rhs == add_hashes(other.hash, hash_fn(0, self.nonce))
         IN lhs = rhs

(***************************************************************************)
(* Modular arithmetic of the power-sum accumulator                         *)
(* (accumulator/src/power_sum.rs).  PANIC is the outcome of a Rust panic   *)
(* (here: an integer division by zero).                                    *)
(***************************************************************************)
PANIC == -1
PanicSeq == <<PANIC>>
ErrSeq == <<PANIC - 1>>

add_and_mod(a, b) == (a + b) % LARGE_PRIME

mul_and_mod(a, b) == (a * b) % LARGE_PRIME

\* the loop of div_and_mod that computes gcd(a, b); `y / x` with x = 0 panics
RECURSIVE GcdLoop(_, _)
GcdLoop(x, y) ==
    IF x = 0 THEN PANIC
    ELSE LET remainder == y - x * (y \div x)
         IN IF remainder = 0 THEN x ELSE GcdLoop(remainder, x)

\* the extended Euclid loop of div_and_mod; returns old_x once r = 0.
\* Rust's / truncates toward zero; old_r and r stay non-negative here.
RECURSIVE MmiLoop(_, _, _, _)
MmiLoop(old_r, r, old_x, x) ==
    IF r = 0 THEN old_x
    ELSE LET quotient == old_r \div r
         IN MmiLoop(r, old_r - quotient * r, x, old_x - quotient * x)

div_and_mod(a, b) ==
    LET gcd == IF a < b THEN GcdLoop(a, b) ELSE GcdLoop(b, a)
    IN IF gcd = PANIC THEN PANIC
       ELSE LET a1 == (a \div gcd) % LARGE_PRIME
                b1 == b \div gcd
            IN IF b1 = 1 THEN a1
               ELSE LET old_x == MmiLoop(b1, LARGE_PRIME, 1, 0)
                        mmi == (old_x % LARGE_PRIME)
                    IN mul_and_mod(a1, mmi)

\* value = mul_and_mod(value, elem), repeated: <<x, x^2, ..., x^n>> mod q
RECURSIVE PowersLoop(_, _, _, _)
PowersLoop(x, n, value, out) ==
    IF Len(out) = n THEN out
    ELSE LET v == mul_and_mod(value, x)
         IN PowersLoop(x, n, v, Append(out, v))

ElemPowers(x, n) == PowersLoop(x, n, 1, <<>>)

\* power_sums[j] = add_and_mod(power_sums[j], value) for one element
AddPowers(power_sums, x) ==
    LET pw == ElemPowers(x, Len(power_sums))
    IN [j \in 1..Len(power_sums) |-> add_and_mod(power_sums[j], pw[j])]

\* one worker of calculate_power_sums: the power sums of its slice
RECURSIVE WorkerPowerSums(_, _)
WorkerPowerSums(elems, power_sums) ==
    IF elems = <<>> THEN power_sums
    ELSE WorkerPowerSums(Tail(elems), AddPowers(power_sums, Head(elems)))

\* slices of equal length: the last worker stops at its own upper bound
WorkerSliceEven(elems, ncpus, i) ==
    LET elems_per_thread == Len(elems) \div ncpus
    IN SubSeq(elems, i * elems_per_thread + 1, (i + 1) * elems_per_thread)

\* the slice [lower, upper) of worker i (0-based) among ncpus workers
WorkerSlice(elems, ncpus, i) ==
    LET elems_per_thread == Len(elems) \div ncpus
        lower == i * elems_per_thread
        upper == IF i = ncpus - 1 THEN Len(elems) ELSE (i + 1) * elems_per_thread
    IN SubSeq(elems, lower + 1, upper)

RECURSIVE MergePowerSums(_, _, _, _)
MergePowerSums(elems, num_psums, ncpus, i) ==
    IF i = ncpus THEN [j \in 1..num_psums |-> 0]
    ELSE LET result == WorkerPowerSums(WorkerSlice(elems, ncpus, i),
                                       [j \in 1..num_psums |-> 0])
             rest == MergePowerSums(elems, num_psums, ncpus, i + 1)
         IN [j \in 1..num_psums |-> add_and_mod(rest[j], result[j])]

calculate_power_sums(elems, num_psums, ncpus) ==
    MergePowerSums(elems, num_psums, ncpus, 0)

calculate_difference(lhs, rhs) ==
    [i \in 1..Min(Len(lhs), Len(rhs)) |-> add_and_mod(lhs[i], LARGE_PRIME - rhs[i])]

\* Newton's identities: e (1-based here: e[1] = e_0 = 1) grown one entry at a
\* time; PanicSeq as soon as a division panics
RECURSIVE NewtonLoop(_, _, _)
NewtonLoop(p, e, i) ==
    IF i = Len(p) THEN e
    ELSE LET terms == [j \in 0..i |->
                          IF j % 2 = 0 THEN mul_and_mod(e[i - j + 1], p[j + 1])
                          ELSE 0 - mul_and_mod(e[i - j + 1], p[j + 1])]
             sum == SumSeq([k \in 1..(i + 1) |-> terms[k - 1]])
             q == div_and_mod(sum % LARGE_PRIME, i + 1)
         IN IF q = PANIC THEN PanicSeq ELSE NewtonLoop(p, Append(e, q), i + 1)

\* coefficients of the monic polynomial, leading coefficient first; an odd
\* entry e is returned as LARGE_PRIME - e
compute_polynomial_coefficients(p) ==
    IF Len(p) = 0 THEN <<>>
    ELSE LET e == NewtonLoop(p, <<1>>, 0)
         IN IF e = PanicSeq THEN PanicSeq
            ELSE [i \in 1..Len(e) |->
                     IF (i - 1) % 2 # 0 THEN LARGE_PRIME - e[i] ELSE e[i]]

(***************************************************************************)
(* The external root finder (libpari), taken to return the true roots:     *)
(* the roots in GF(LARGE_PRIME) with their multiplicities when the monic   *)
(* polynomial splits into linear factors, and an error otherwise.          *)
(***************************************************************************)
RECURSIVE Horner(_, _, _)
Horner(coeffs, x, acc) ==
    IF coeffs = <<>> THEN acc
    ELSE Horner(Tail(coeffs), x, (acc * x + Head(coeffs)) % LARGE_PRIME)

\* synthetic division of a monic polynomial by (x - r), r a root
RECURSIVE Deflate(_, _, _)
Deflate(coeffs, r, carry) ==
    IF Len(coeffs) <= 1 THEN <<>>
    ELSE LET c == (Head(coeffs) + carry * r) % LARGE_PRIME
         IN <<c>> \o Deflate(Tail(coeffs), r, c)

RECURSIVE RootsOf(_)
RootsOf(coeffs) ==
    IF Len(coeffs) <= 1 THEN <<>>
    ELSE LET zeros == {r \in 0..(LARGE_PRIME - 1) : Horner(coeffs, r, 0) = 0}
         IN IF zeros = {} THEN ErrSeq
            ELSE LET r == CHOOSE z \in zeros : \A y \in zeros : z <= y
                     rest == RootsOf(Deflate(coeffs, r, 0))
                 IN IF rest = ErrSeq THEN ErrSeq ELSE <<r>> \o rest

\* Ok(roots), or Err written as ErrSeq
find_integer_monic_polynomial_roots(coeffs) == RootsOf(coeffs)

(***************************************************************************)
(* Multisets of elements are functions Elems -> Nat.                       *)
(***************************************************************************)
EmptyBag == [e \in Elems |-> 0]

BagOfSeq(s) == [e \in Elems |-> CountIn(s, e)]

BagSize(b) == SumSeq([i \in 1..NumElems |-> b[i]])

SubBag(a, b) == \A e \in Elems : a[e] <= b[e]

BagPlus(a, b) == [e \in Elems |-> a[e] + b[e]]

\* the elements of a bag as a sequence, in increasing order
RECURSIVE BagToSeqFrom(_, _)
BagToSeqFrom(b, e) ==
    IF e > NumElems THEN <<>>
    ELSE [i \in 1..b[e] |-> e] \o BagToSeqFrom(b, e + 1)

BagToSeq(b) == BagToSeqFrom(b, 1)

\* sub-bags of `pool` with exactly k elements
SubBagsOfSize(pool, k) ==
    {f \in [Elems -> 0..k] : SubBag(f, pool) /\ BagSize(f) = k}

\* elements of s that satisfy Keep(_), in order
Filter(s, Keep(_)) == SelectSeq(s, Keep)

\* digest.add(elem) for each elem of a sequence
RECURSIVE AddEach(_, _)
AddEach(d, elems) ==
    IF elems = <<>> THEN d ELSE AddEach(DigestAdd(d, Head(elems)), Tail(elems))

(***************************************************************************)
(* Naive accumulator (accumulator/src/naive.rs).                           *)
(***************************************************************************)
NaiveNew(nonce) == [digest |-> new_with_seed(nonce)]

NaiveProcess(self, elem) == [self EXCEPT !.digest = DigestAdd(@, elem)]

NaiveTotal(self) == self.digest.count

\* itertools' (0..n).combinations(k): the k-index tuples in increasing order,
\* generated by choosing the first index and then the rest to its right
RECURSIVE CombinationsFrom(_, _, _)
CombinationsFrom(lo, n, k) ==
    IF k = 0 THEN {<<>>}
    ELSE UNION {{<<i>> \o c : c \in CombinationsFrom(i + 1, n, k - 1)} :
                i \in lo..n}

\* only the combination that takes every position
CombinationsAll(n, k) == CombinationsFrom(1, n, n)

Combinations(n, k) == CombinationsFrom(1, n, k)

NaiveValidate(self, elems, vn) ==
    \E combination \in Combinations(Len(elems), NaiveTotal(self)) :
        LET digest == AddEach(new_with_seed(vn),
                              [i \in 1..Len(combination) |-> elems[combination[i]]])
        IN DigestEquals(digest, self.digest)

(***************************************************************************)
(* Power-sum accumulator (accumulator/src/power_sum.rs).                   *)
(***************************************************************************)
PsumNew(threshold, nonce) ==
    [digest |-> new_with_seed(nonce), power_sums |-> [i \in 1..threshold |-> 0]]

PsumImage(elem) == BitAnd(elem_to_u32(elem), DJB_MASK)

PsumProcess(self, elem) ==
    [self EXCEPT !.digest = DigestAdd(@, elem),
                 !.power_sums = AddPowers(@, PsumImage(elem))]

PsumTotal(self) == self.digest.count

(***************************************************************************)
(* The bytes of a power-sum accumulator (to_bytes and from_bytes).  The    *)
(* wire struct MiniPowerSumAccumulator holds the hash, the count as a u16, *)
(* the nonce as a u64 seed and the power sums as big-endian bytes; bincode *)
(* writes the fields in order, integers little-endian and a vector behind  *)
(* its length as a u64.  The u16 is scaled like the words: it has half of  *)
(* WordBits bits.                                                          *)
(***************************************************************************)
MiniCountMod == Pow(2, WordBits \div 2)

\* DJB_HASH_SIZE / 8
BytesPerPsum == 4

RECURSIVE LeBytes(_, _)
LeBytes(v, n) == IF n = 0 THEN <<>> ELSE <<v % 256>> \o LeBytes(v \div 256, n - 1)

RECURSIVE BeBytes(_, _)
BeBytes(v, n) == IF n = 0 THEN <<>> ELSE BeBytes(v \div 256, n - 1) \o <<v % 256>>

RECURSIVE FromBe(_)
FromBe(b) ==
    IF b = <<>> THEN 0 ELSE 256 * FromBe(SubSeq(b, 1, Len(b) - 1)) + b[Len(b)]

RECURSIVE FlatBe(_)
FlatBe(words) ==
    IF words = <<>> THEN <<>>
    ELSE BeBytes(Head(words), BytesPerPsum) \o FlatBe(Tail(words))

RECURSIVE FlatLe(_)
FlatLe(words) ==
    IF words = <<>> THEN <<>>
    ELSE LeBytes(Head(words), BytesPerPsum) \o FlatLe(Tail(words))

\* bincode::serialize of a MiniPowerSumAccumulator
MiniSerialize(x) ==
    LeBytes(x.hash, NBYTES_HASH) \o LeBytes(x.count, 2) \o LeBytes(x.seed, 8)
        \o LeBytes(Len(x.power_sums), 8) \o x.power_sums

\* bincode::deserialize of a MiniPowerSumAccumulator
MiniDeserialize(bytes) ==
    LET at == NBYTES_HASH + 2 + 8 + 8
        len == from_bytes_le(SubSeq(bytes, NBYTES_HASH + 11, at))
    IN [hash |-> from_bytes_le(SubSeq(bytes, 1, NBYTES_HASH)),
        count |-> from_bytes_le(SubSeq(bytes, NBYTES_HASH + 1, NBYTES_HASH + 2)),
        seed |-> from_bytes_le(SubSeq(bytes, NBYTES_HASH + 3, NBYTES_HASH + 10)),
        power_sums |-> SubSeq(bytes, at + 1, at + len)]

\* a to_bytes that writes the power sums little-endian
PsumToBytesLe(self) ==
    IF self.digest.count # self.digest.count % MiniCountMod
    THEN [panic |-> TRUE, bytes |-> <<>>]
    ELSE [panic |-> FALSE,
          bytes |-> MiniSerialize(
              [hash |-> self.digest.hash,
               count |-> self.digest.count % MiniCountMod,
               seed |-> FromBe(BeBytes(self.digest.nonce, 8)),
               power_sums |-> FlatLe(self.power_sums)])]

\* to_bytes: panics when the count does not fit the u16 of the wire struct
PsumToBytes(self) ==
    IF self.digest.count # self.digest.count % MiniCountMod
    THEN [panic |-> TRUE, bytes |-> <<>>]
    ELSE [panic |-> FALSE,
          bytes |-> MiniSerialize(
              [hash |-> self.digest.hash,
               count |-> self.digest.count % MiniCountMod,
               seed |-> FromBe(BeBytes(self.digest.nonce, 8)),
               power_sums |-> FlatBe(self.power_sums)])]

PsumFromBytes(bytes) ==
    LET x == MiniDeserialize(bytes)
        num_psums == Len(x.power_sums) \div BytesPerPsum
    IN [digest |-> [hash |-> x.hash,
                    count |-> x.count,
                    nonce |-> FromBe(BeBytes(x.seed, 8))],
        power_sums |->
            [i \in 1..num_psums |->
                FromBe(SubSeq(x.power_sums, (i - 1) * BytesPerPsum + 1,
                              i * BytesPerPsum))]]

\* ValidationResult::is_valid
IsValid(result) == result \in {"Valid", "PsumCollisionsValid", "IbltIlpValid"}

\* the log elements that collect under root r (the `collisions` map)
Collisions(elems, r) == Filter(elems, LAMBDA e : PsumImage(e) = r)

\* what one recovered root contributes: "Invalid" when it has no candidate
\* or fewer candidates than its multiplicity; otherwise the elements that
\* are added to the digest at once (fixed) and, when the candidates are not
\* all the same element, the pool and size of the combinations to try
RootPlan(elems, r, dropped_count) ==
    LET cands == Collisions(elems, r)
        received_count == Len(cands) - dropped_count
        distinct == {cands[i] : i \in 1..Len(cands)}
        counts == BagOfSeq(cands)
    IN IF Len(cands) = 0 \/ dropped_count > Len(cands)
       THEN [kind |-> "Invalid", fixed |-> EmptyBag, pool |-> EmptyBag, k |-> 0]
       ELSE IF dropped_count = Len(cands)
       THEN [kind |-> "AllDropped", fixed |-> EmptyBag, pool |-> EmptyBag, k |-> 0]
       ELSE IF Cardinality(distinct) = 1
       THEN [kind |-> "OneUnique",
             fixed |-> BagOfSeq(SubSeq(cands, 1, received_count)),
             pool |-> EmptyBag, k |-> 0]
       ELSE [kind |-> "Combos",
             \* By Pigeonhole it couldn't have been dropped: the copies of an
             \* element beyond dropped_count go to the digest
             fixed |-> [e \in Elems |->
                          IF counts[e] > dropped_count
                          THEN counts[e] - dropped_count ELSE 0],
             pool |-> [e \in Elems |-> Min(counts[e], dropped_count)],
             k |-> received_count]

\* multi_cartesian_product of the per-root combinations, each product
\* flattened to the multiset of elements it adds to the digest
RECURSIVE CartesianProduct(_)
CartesianProduct(plans) ==
    IF plans = <<>> THEN {EmptyBag}
    ELSE {BagPlus(c, rest) :
            c \in SubBagsOfSize(Head(plans).pool, Head(plans).k),
            rest \in CartesianProduct(Tail(plans))}

\* emptyYields: whether multi_cartesian_product of no iterators at all
\* yields one empty product (itertools >= 0.11) or nothing (older releases)
PsumResolve(self, elems, roots, vn, emptyYields) ==
    LET rootSet == {roots[i] : i \in 1..Len(roots)}
        rootSeq == SetToSeq(rootSet)
        plan == [i \in 1..Len(rootSeq) |->
                    RootPlan(elems, rootSeq[i], CountIn(roots, rootSeq[i]))]
        plans == {plan[i] : i \in 1..Len(plan)}
        notDropped == Filter(elems, LAMBDA e : PsumImage(e) \notin rootSet)
        fixedSeq == [i \in 1..Len(plan) |-> BagToSeq(plan[i].fixed)]
        fixedAll == IF fixedSeq = <<>> THEN <<>>
                    ELSE LET RECURSIVE Cat(_)
                             Cat(i) == IF i > Len(fixedSeq) THEN <<>>
                                       ELSE fixedSeq[i] \o Cat(i + 1)
                         IN Cat(1)
        digest == AddEach(AddEach(new_with_seed(vn), notDropped), fixedAll)
        comboPlans == Filter(plan, LAMBDA pl : pl.kind = "Combos")
        products == IF comboPlans = <<>> /\ ~emptyYields THEN {}
                    ELSE CartesianProduct(comboPlans)
    IN IF \E pl \in plans : pl.kind = "Invalid"
       THEN [result |-> "Invalid", stage |-> "candidates"]
       ELSE IF \E curr \in products :
                 DigestEquals(AddEach(digest, BagToSeq(curr)), self.digest)
       THEN [result |-> "PsumCollisionsValid", stage |-> "combinations"]
       ELSE IF DigestEquals(digest, self.digest)
       THEN [result |-> "Valid", stage |-> "combinations"]
       ELSE IF products = {}
       THEN [result |-> "Invalid", stage |-> "combinations"]
       ELSE [result |-> "PsumCollisionsInvalid", stage |-> "combinations"]

\* a threshold test that tolerates one drop too many
ExceedsThresholdByTwo(n_values, threshold) == n_values > threshold + 1

\* `if n_values > threshold`
ExceedsThreshold(n_values, threshold) == n_values > threshold

PsumValidate(self, elems, vn, ncpus, emptyYields) ==
    IF PsumTotal(self) = 0
    THEN [result |-> "Valid", stage |-> "empty"]
    ELSE IF Len(elems) < PsumTotal(self)
    THEN [result |-> "Invalid", stage |-> "size"]
    ELSE LET n_values == Len(elems) - PsumTotal(self)
             threshold == Len(self.power_sums)
         IN IF ExceedsThreshold(n_values, threshold)
            THEN [result |-> "PsumExceedsThreshold", stage |-> "threshold"]
            ELSE IF n_values = 0
            THEN [result |-> IF DigestEquals(AddEach(new_with_seed(vn), elems),
                                             self.digest)
                             THEN "Valid" ELSE "Invalid",
                  stage |-> "digest"]
            ELSE LET elems_u32 == [i \in 1..Len(elems) |-> PsumImage(elems[i])]
                     power_sums == calculate_power_sums(elems_u32, n_values, ncpus)
                     power_sums_diff == calculate_difference(power_sums,
                                                             self.power_sums)
                     \* power_sums_diff[..n_values] panics past the end
                     coeffs == IF n_values > Len(power_sums_diff) THEN PanicSeq
                               ELSE compute_polynomial_coefficients(
                                        SubSeq(power_sums_diff, 1, n_values))
                 IN IF coeffs = PanicSeq
                    THEN [result |-> "Panic", stage |-> "coefficients"]
                    ELSE LET roots == find_integer_monic_polynomial_roots(coeffs)
                         IN IF roots = ErrSeq
                            THEN [result |-> "PsumErrorFindingRoots",
                                  stage |-> "roots"]
                            ELSE PsumResolve(self, elems, roots, vn, emptyYields)

(***************************************************************************)
(* Invertible Bloom lookup table (bloom-sd/src/iblt.rs).  Cells are        *)
(* numbered from 0 as in the code; cell i is entry i + 1 of the sequences. *)
(* The two keyed SipHash-1-3 hashers are fixed functions of the hashed     *)
(* 32-bit image.                                                           *)
(***************************************************************************)
SipOne(item_u32) == 7 * item_u32 + 3
SipTwo(item_u32) == 5 * item_u32 + 1

\* HashIter: h1, h2, then (h1 + i) * h2
HashIter(item_u32, count) ==
    [n \in 1..count |->
        LET i == n - 1
        IN IF i = 0 THEN SipOne(item_u32)
           ELSE IF i = 1 THEN SipTwo(item_u32)
           ELSE (SipOne(item_u32) + i) * SipTwo(item_u32)]

IbltEmpty(bits_per_entry, num_entries, num_hashes) ==
    [counters |-> [i \in 1..num_entries |-> 0],
     data |-> [i \in 1..num_entries |-> 0],
     bits_per_entry |-> bits_per_entry,
     num_entries |-> num_entries,
     num_hashes |-> num_hashes]

IbltEmptyClone(self) ==
    IbltEmpty(self.bits_per_entry, self.num_entries, self.num_hashes)

\* ValueVec::max_value
MaxValue(self) == Pow(2, self.bits_per_entry) - 1

IbltIndexes(self, item_u32) ==
    LET hs == HashIter(item_u32, self.num_hashes)
    IN [n \in 1..Len(hs) |-> hs[n] % self.num_entries]

\* the body of insert's loop for the hash positions idxs, one after another
RECURSIVE IbltInsertAt(_, _, _)
IbltInsertAt(self, idxs, item_u32) ==
    IF idxs = <<>> THEN self
    ELSE LET idx == Head(idxs) + 1
             cur == self.counters[idx]
             next == IF cur < MaxValue(self) THEN cur + 1 ELSE 0
         IN IbltInsertAt(
                [self EXCEPT !.counters[idx] = next,
                             !.data[idx] = (@ + item_u32) % WordMod],
                Tail(idxs), item_u32)

IbltInsertU32(self, item_u32) ==
    IbltInsertAt(self, IbltIndexes(self, item_u32), item_u32)

IbltInsert(self, item) == IbltInsertU32(self, elem_to_u32(item))

RECURSIVE IbltRemoveAt(_, _, _)
IbltRemoveAt(self, idxs, item_u32) ==
    IF idxs = <<>> THEN self
    ELSE LET idx == Head(idxs) + 1
             cur == self.counters[idx]
             next == IF cur = 0 THEN MaxValue(self) ELSE cur - 1
         IN IbltRemoveAt(
                [self EXCEPT !.counters[idx] = next,
                             !.data[idx] = (@ + WordMod - item_u32) % WordMod],
                Tail(idxs), item_u32)

remove_u32(self, item_u32) ==
    IbltRemoveAt(self, IbltIndexes(self, item_u32), item_u32)

IbltContains(self, item) ==
    LET idxs == IbltIndexes(self, elem_to_u32(item))
    IN \A n \in 1..Len(idxs) : self.counters[idxs[n] + 1] # 0

\* eliminate_elems: passes over the cells 0..num_entries-1 until a pass
\* removes nothing.  The result records the table, the removed set and
\* whether `assert!(removed_set.insert(item))` failed.
RECURSIVE EliminateLoop(_, _, _, _)
EliminateLoop(self, removed_set, i, removed) ==
    IF i = self.num_entries
    THEN IF removed THEN EliminateLoop(self, removed_set, 0, FALSE)
         ELSE [iblt |-> self, removed |-> removed_set, panic |-> FALSE]
    ELSE IF self.counters[i + 1] # 1
    THEN EliminateLoop(self, removed_set, i + 1, removed)
    ELSE LET item == self.data[i + 1]
             next == remove_u32(self, item)
         IN IF item \in removed_set
            THEN [iblt |-> next, removed |-> removed_set, panic |-> TRUE]
            ELSE EliminateLoop(next, removed_set \cup {item}, i + 1, TRUE)

eliminate_elems(self) == EliminateLoop(self, {}, 0, FALSE)

(***************************************************************************)
(* IBLT accumulator (accumulator/src/iblt.rs).                             *)
(***************************************************************************)
DEFAULT_BITS_PER_ENTRY == 2
DEFAULT_CELLS_MULTIPLIER == 2
DEFAULT_NUM_HASHES == 2

IbltAccNew(threshold, nonce) ==
    [digest |-> new_with_seed(nonce),
     iblt |-> IbltEmpty(DEFAULT_BITS_PER_ENTRY,
                        DEFAULT_CELLS_MULTIPLIER * threshold,
                        DEFAULT_NUM_HASHES)]

\* IBLTAccumulator::new_with_params
IbltAccNewWithParams(threshold, bits_per_entry, cells_multiplier, num_hashes, nonce) ==
    [digest |-> new_with_seed(nonce),
     iblt |-> IbltEmpty(bits_per_entry, cells_multiplier * threshold, num_hashes)]

IbltAccProcess(self, elem) ==
    [self EXCEPT !.digest = DigestAdd(@, elem), !.iblt = IbltInsert(@, elem)]

\* a total that forgets the processed elements
IbltAccTotalZero(self) == 0

IbltAccTotal(self) == self.digest.count

\* bincode::serialize of the derived Serialize of Digest: the hash, the
\* count as a u32 and the nonce
DigestToBytes(d) ==
    LeBytes(d.hash, NBYTES_HASH) \o LeBytes(d.count, 4) \o BeBytes(d.nonce, 8)

\* to_bytes of the IBLT accumulator: the digest, then the table (counters,
\* data, num_entries, num_hashes)
IbltAccToBytes(self) ==
    [panic |-> FALSE,
     bytes |-> DigestToBytes(self.digest)
                 \o LeBytes(Len(self.iblt.counters), 8) \o FlatLe(self.iblt.counters)
                 \o LeBytes(Len(self.iblt.data), 8) \o FlatLe(self.iblt.data)
                 \o LeBytes(self.iblt.num_entries, 8)
                 \o LeBytes(self.iblt.num_hashes, 4)]

RECURSIVE IbltInsertAll(_, _)
IbltInsertAll(iblt, elems) ==
    IF elems = <<>> THEN iblt
    ELSE IbltInsertAll(IbltInsert(iblt, Head(elems)), Tail(elems))

\* a difference that skips the comparison of the counter sum with
\* num_hashes * n_dropped
calculate_difference_unsummed(n_dropped, logged_elems, received_iblt) ==
    LET logged == IbltInsertAll(IbltEmptyClone(received_iblt), logged_elems)
        n == logged.num_entries
        wraparound == Pow(2, logged.bits_per_entry)
        iblt == [logged EXCEPT
                    !.counters = [i \in 1..n |->
                        (logged.counters[i] + wraparound
                            - received_iblt.counters[i]) % wraparound],
                    !.data = [i \in 1..n |->
                        (logged.data[i] + WordMod - received_iblt.data[i])
                            % WordMod]]
    IN [some |-> ~\E i \in 1..n : iblt.counters[i] = 0 /\ iblt.data[i] # 0,
        iblt |-> iblt]

\* None is [some |-> FALSE]; Some(iblt) is [some |-> TRUE, iblt |-> iblt]
calculate_difference_iblt(n_dropped, logged_elems, received_iblt) ==
    LET logged == IbltInsertAll(IbltEmptyClone(received_iblt), logged_elems)
        n == logged.num_entries
        wraparound == Pow(2, logged.bits_per_entry)
        difference_count ==
            [i \in 1..n |->
                (logged.counters[i] + wraparound - received_iblt.counters[i])
                    % wraparound]
        difference_data ==
            [i \in 1..n |->
                (logged.data[i] + WordMod - received_iblt.data[i]) % WordMod]
        iblt_sum == SumSeq(difference_count)
        iblt == [logged EXCEPT !.counters = difference_count,
                               !.data = difference_data]
    IN IF \E i \in 1..n : difference_count[i] = 0 /\ difference_data[i] # 0
       THEN [some |-> FALSE, iblt |-> iblt]
       ELSE IF ((n_dropped % WordMod) * iblt.num_hashes) % WordMod = iblt_sum
       THEN [some |-> TRUE, iblt |-> iblt]
       ELSE [some |-> FALSE, iblt |-> iblt]

\* the groups of `elems` that share a removed image, as sequences
CollisionsMap(elems, removed) ==
    [u \in {u \in removed : \E i \in 1..Len(elems) : elem_to_u32(elems[i]) = u}
        |-> SelectSeq(elems, LAMBDA e : elem_to_u32(e) = u)]

\* the outcome is "Valid", "Invalid" or "Panic" (a failed assert_eq!);
\* every product adds len - 1 elements per group, so all candidate digests
\* have the same count and the assertion fails on the first one or never
check_digest_from_removed_set(expected_digest, elems, removed, vn) ==
    LET digest == DigestAddAll(new_with_seed(vn),
                     SelectSeq(elems, LAMBDA e : elem_to_u32(e) \notin removed))
        collisions_map == CollisionsMap(elems, removed)
        groups == SetToSeq({u \in DOMAIN collisions_map :
                                Len(collisions_map[u]) # 1})
        combinations ==
            [g \in 1..Len(groups) |->
                [pool |-> BagOfSeq(collisions_map[groups[g]]),
                 k |-> Len(collisions_map[groups[g]]) - 1]]
        digests == {DigestAddAll(digest, BagToSeq(product)) :
                        product \in CartesianProduct(combinations)}
    IN IF Cardinality(removed) # Cardinality(DOMAIN collisions_map)
       THEN "Invalid"
       ELSE IF Len(groups) = 0
       THEN IF digest.count # expected_digest.count THEN "Panic"
            ELSE IF DigestEquals(digest, expected_digest) THEN "Valid"
            ELSE "Invalid"
       ELSE IF \E d \in digests : d.count # expected_digest.count THEN "Panic"
       ELSE IF \E d \in digests : DigestEquals(d, expected_digest) THEN "Valid"
       ELSE "Invalid"

\* the feasible 0/1 assignments of the external solver: sets of
\* n_dropped positions among the candidates whose cell coverage equals
\* the counters
IlpSolutions(counters, candidates, cover, n_dropped) ==
    {S \in SUBSET candidates :
        /\ Cardinality(S) = n_dropped
        /\ \A c \in 1..Len(counters) :
             SumSeq([n \in 1..Len(SetToSeq(S)) |->
                        CountIn(cover[SetToSeq(S)[n]], c - 1)]) = counters[c]}

\* the result is the set of possible returns: "Panic", or
\* [some |-> FALSE], or [some |-> TRUE, dropped |-> positions]
solve_ilp_for_iblt(n_dropped_remaining, elems, iblt) ==
    LET elems_i == {i \in 1..Len(elems) : IbltContains(iblt, elems[i])}
        cover == [i \in 1..Len(elems) |->
                     IbltIndexes(iblt, elem_to_u32(elems[i]))]
        sols == IlpSolutions(iblt.counters, elems_i, cover, n_dropped_remaining)
    IN IF n_dropped_remaining > Cardinality(elems_i)
       THEN {[panic |-> TRUE, some |-> FALSE, dropped |-> {}]}
       ELSE IF sols = {}
       THEN {[panic |-> FALSE, some |-> FALSE, dropped |-> {}]}
       ELSE {[panic |-> FALSE, some |-> TRUE, dropped |-> S] : S \in sols}

\* the set of possible outcomes [result, stage] of validate
IbltValidate(self, elems, vn) ==
    LET total == IbltAccTotal(self)
        n_dropped == Len(elems) - total
        diff == calculate_difference_iblt(n_dropped, elems, self.iblt)
        elim == eliminate_elems(diff.iblt)
        removed == elim.removed
        n_removed == Cardinality(removed)
        ilp == solve_ilp_for_iblt(n_dropped - n_removed, elems, elim.iblt)
        Kept(sol) == LET keep == SetToSeq({i \in 1..Len(elems) :
                                              i \notin sol.dropped})
                     IN [n \in 1..Len(keep) |-> elems[keep[n]]]
    IN IF Len(elems) < total
       THEN {[result |-> "Invalid", stage |-> "size"]}
       ELSE IF n_dropped = 0
       THEN {[result |-> IF DigestEquals(DigestAddAll(new_with_seed(vn), elems),
                                         self.digest)
                         THEN "Valid" ELSE "Invalid",
              stage |-> "digest"]}
       ELSE IF ~diff.some
       THEN {[result |-> "Invalid", stage |-> "difference"]}
       ELSE IF elim.panic
       THEN {[result |-> "Panic", stage |-> "eliminate"]}
       ELSE IF n_removed = n_dropped
       THEN {[result |-> check_digest_from_removed_set(
                             self.digest, elems, removed, vn),
              stage |-> "removed"]}
       ELSE IF n_dropped < n_removed
       THEN {[result |-> "Panic", stage |-> "removed"]}
       ELSE {IF sol.panic THEN [result |-> "Panic", stage |-> "ilp"]
             ELSE IF ~sol.some THEN [result |-> "Invalid", stage |-> "ilp"]
             ELSE [result |-> check_digest_from_removed_set(
                                  self.digest, Kept(sol), removed, vn),
                   stage |-> "ilp"] : sol \in ilp}

(***************************************************************************)
(* CBF accumulator (accumulator/src/cbf.rs, bloom-sd/src/cbf.rs,           *)
(* digest/src/xor.rs).  Its elements are 32-bit numbers, hashed directly.  *)
(***************************************************************************)
BITS_PER_ENTRY == 2

\* bloom::needed_bits and bloom::optimal_num_hashes of the external crate
needed_bits(expected_num_items) == 3 * expected_num_items
optimal_num_hashes(expected_num_items) == 2

XorNew == [hash |-> 0]
XorAdd(self, elem) == [hash |-> BitXor(self.hash, elem)]

RECURSIVE XorAddAll(_, _)
XorAddAll(self, elems) ==
    IF elems = <<>> THEN self
    ELSE XorAddAll(XorAdd(self, Head(elems)), Tail(elems))

with_rate(bits_per_entry, expected_num_items) ==
    [counters |-> [i \in 1..needed_bits(expected_num_items) |-> 0],
     bits_per_entry |-> bits_per_entry,
     num_entries |-> needed_bits(expected_num_items),
     num_hashes |-> optimal_num_hashes(expected_num_items),
     overflow |-> FALSE]

CbfEmptyClone(self) ==
    [self EXCEPT !.counters = [i \in 1..self.num_entries |-> 0],
                 !.overflow = FALSE]

CbfIndexes(self, item) ==
    LET hs == HashIter(item, self.num_hashes)
    IN [n \in 1..Len(hs) |-> hs[n] % self.num_entries]

\* insert; `overflow` records the panic "counting bloom filter counter
\* overflow", after which nothing more is written
RECURSIVE CbfInsertAt(_, _)
CbfInsertAt(self, idxs) ==
    IF idxs = <<>> \/ self.overflow THEN self
    ELSE LET idx == Head(idxs) + 1
             cur == self.counters[idx]
         IN IF cur < MaxValue(self)
            THEN CbfInsertAt([self EXCEPT !.counters[idx] = cur + 1], Tail(idxs))
            ELSE [self EXCEPT !.overflow = TRUE]

\* an insert that wraps a full counter to 0, as the IBLT does
CbfInsertWrapping(self, item) ==
    [self EXCEPT !.counters =
        [i \in 1..self.num_entries |->
            (self.counters[i] + CountIn(CbfIndexes(self, item), i - 1))
                % (MaxValue(self) + 1)]]

CbfInsert(self, item) == CbfInsertAt(self, CbfIndexes(self, item))

RECURSIVE CbfInsertAll(_, _)
CbfInsertAll(self, elems) ==
    IF elems = <<>> THEN self
    ELSE CbfInsertAll(CbfInsert(self, Head(elems)), Tail(elems))

CbfContains(self, item) ==
    LET idxs == CbfIndexes(self, item)
    IN \A n \in 1..Len(idxs) : self.counters[idxs[n] + 1] # 0

CbfAccNew(threshold) ==
    [digest |-> XorNew, num_elems |-> 0,
     cbf |-> with_rate(BITS_PER_ENTRY, threshold)]

CbfAccProcess(self, elem) ==
    [digest |-> XorAdd(self.digest, elem),
     num_elems |-> self.num_elems + 1,
     cbf |-> CbfInsert(self.cbf, elem)]

CbfAccTotal(self) == self.num_elems

\* check_digest: walks elems with the map of dropped counts; an element
\* found in the map is skipped, and its entry is re-inserted with
\* count - 1 only when count > 0
RECURSIVE CheckDigestLoop(_, _, _)
CheckDigestLoop(elems, dropped_count, digest) ==
    IF elems = <<>> THEN digest
    ELSE LET elem == Head(elems)
         IN IF dropped_count[elem] >= 0
            THEN CheckDigestLoop(Tail(elems),
                     [dropped_count EXCEPT ![elem] = @ - 1], digest)
            ELSE CheckDigestLoop(Tail(elems), dropped_count,
                                 XorAdd(digest, elem))

\* dropped_count maps an element to its count, or to -1 when it has no entry
check_digest(elems, dropped_count, expected) ==
    CheckDigestLoop(elems, dropped_count, XorNew) = expected

\* a check for n_dropped == 0 that compares the cells of the two CBFs
CbfNoDropsCells(self, elems) ==
    CbfInsertAll(CbfEmptyClone(self.cbf), elems).counters = self.cbf.counters

\* n_dropped == 0: the XOR digest of the log is recalculated and compared
CbfNoDropsValid(self, elems) == XorAddAll(XorNew, elems) = self.digest

\* the set of possible outcomes [result, stage] of validate
CbfValidate(self, elems) ==
    LET total == CbfAccTotal(self)
        n_dropped == Len(elems) - total
        logged == CbfInsertAll(CbfEmptyClone(self.cbf), elems)
        n == logged.num_entries
        cbf == [logged EXCEPT !.counters =
                   [i \in 1..n |-> logged.counters[i] - self.cbf.counters[i]]]
        elems_i == {i \in 1..Len(elems) : CbfContains(cbf, elems[i])}
        cover == [i \in 1..Len(elems) |-> CbfIndexes(cbf, elems[i])]
        sols == IlpSolutions(cbf.counters, elems_i, cover, n_dropped)
        DroppedCount(S) ==
            [e \in Elems |->
                LET c == Cardinality({i \in S : elems[i] = e})
                IN IF c = 0 THEN -1 ELSE c]
    IN IF Len(elems) < total
       THEN {[result |-> "Invalid", stage |-> "size"]}
       ELSE IF n_dropped = 0
       THEN {[result |-> IF CbfNoDropsValid(self, elems)
                         THEN "Valid" ELSE "Invalid",
              stage |-> "digest"]}
       ELSE IF logged.overflow
       THEN {[result |-> "Panic", stage |-> "difference"]}
       ELSE IF \E i \in 1..n : logged.counters[i] < self.cbf.counters[i]
       THEN {[result |-> "Invalid", stage |-> "difference"]}
       ELSE IF sols = {}
       THEN {[result |-> "Invalid", stage |-> "ilp"]}
       ELSE {[result |-> IF check_digest(elems, DroppedCount(S), self.digest)
                         THEN "Valid" ELSE "Invalid",
              stage |-> "ilp"] : S \in sols}

(***************************************************************************)
(* Power-sum quACK (src/power_sum.rs).  ModularInteger, eval and the       *)
(* inverse table belong to the arithmetic and precompute modules: field    *)
(* operations modulo MODULUS, Horner evaluation of the monic polynomial    *)
(* and the inverses of 1, 2, 3, ...                                        *)
(***************************************************************************)
MODULUS == 13

ModNew(n) == IF n >= MODULUS THEN n - MODULUS ELSE n
ModAdd(a, b) == (a + b) % MODULUS
ModSub(a, b) == (a + MODULUS - b) % MODULUS
ModMul(a, b) == (a * b) % MODULUS
ModNeg(a) == (MODULUS - a) % MODULUS

\* INVERSE_TABLE_U32[i] is the inverse of i + 1
INVERSE_TABLE_U32(i) ==
    CHOOSE v \in 1..(MODULUS - 1) : ((i + 1) * v) % MODULUS = 1

\* eval: x^n + coeffs[0] x^(n-1) + ... + coeffs[n-1] by Horner's scheme
RECURSIVE EvalLoop(_, _, _)
EvalLoop(coeffs, x, result) ==
    IF coeffs = <<>> THEN result
    ELSE EvalLoop(Tail(coeffs), x, ModAdd(ModMul(result, x), Head(coeffs)))

eval(coeffs, x) == EvalLoop(coeffs, ModNew(x), 1)

\* Option: None is <<>>, Some(v) is <<v>>
None == <<>>
Some(v) == <<v>>

QuackNew(threshold) ==
    [power_sums |-> [i \in 1..threshold |-> 0], last_value |-> None, count |-> 0]

\* the values y takes in insert and remove: x, x^2, ..., x^size
RECURSIVE QuackPowers(_, _, _)
QuackPowers(x, y, size) ==
    IF size = 0 THEN <<>>
    ELSE <<y>> \o QuackPowers(x, ModMul(y, x), size - 1)

QuackInsert(self, value) ==
    LET size == Len(self.power_sums)
        x == ModNew(value)
        ys == QuackPowers(x, x, size)
    IN [power_sums |-> [i \in 1..size |-> ModAdd(self.power_sums[i], ys[i])],
        count |-> (self.count + 1) % WordMod,
        last_value |-> Some(x)]

\* a subtraction that keeps the left count
QuackSubKeepCount(lhs, rhs) ==
    LET threshold == Min(Len(lhs.power_sums), Len(rhs.power_sums))
    IN [power_sums |-> [i \in 1..threshold |->
                           ModSub(lhs.power_sums[i], rhs.power_sums[i])],
        last_value |-> None,
        count |-> lhs.count]

\* sub
QuackSub(lhs, rhs) ==
    LET threshold == Min(Len(lhs.power_sums), Len(rhs.power_sums))
    IN [power_sums |-> [i \in 1..threshold |->
                           ModSub(lhs.power_sums[i], rhs.power_sums[i])],
        last_value |-> None,
        count |-> (lhs.count + WordMod - rhs.count) % WordMod]

\* the inner loop of to_coeffs_preallocated for index i (0-based), j = 0..i-1
RECURSIVE CoeffInner(_, _, _, _)
CoeffInner(self, coeffs, i, j) ==
    IF j = i THEN coeffs
    ELSE CoeffInner(self,
             [coeffs EXCEPT ![i + 1] =
                 ModSub(@, ModMul(self.power_sums[j + 1], coeffs[i - j]))],
             i, j + 1)

\* the outer loop, i = 1..len-1; PanicSeq when power_sums[i] is out of bounds
RECURSIVE CoeffOuter(_, _, _)
CoeffOuter(self, coeffs, i) ==
    IF i >= Len(coeffs) THEN coeffs
    ELSE IF i >= Len(self.power_sums) THEN PanicSeq
    ELSE LET inner == CoeffInner(self, coeffs, i, 0)
             subbed == ModSub(inner[i + 1], self.power_sums[i + 1])
         IN CoeffOuter(self,
                [inner EXCEPT ![i + 1] = ModMul(subbed, INVERSE_TABLE_U32(i))],
                i + 1)

to_coeffs_preallocated(self, coeffs) ==
    IF coeffs = <<>> THEN coeffs
    ELSE IF Len(self.power_sums) = 0 THEN PanicSeq
    ELSE CoeffOuter(self, [coeffs EXCEPT ![1] = ModNeg(self.power_sums[1])], 1)

to_coeffs(self) ==
    to_coeffs_preallocated(self, [i \in 1..self.count |-> 0])

\* a decoder that keeps the log elements that are not roots
DecodeNonRoots(self, log) ==
    IF self.count = 0 THEN <<>>
    ELSE LET coeffs == to_coeffs(self)
         IN IF coeffs = PanicSeq THEN PanicSeq
            ELSE SelectSeq(log, LAMBDA x : eval(coeffs, x) # 0)

decode_with_log(self, log) ==
    IF self.count = 0 THEN <<>>
    ELSE LET coeffs == to_coeffs(self)
         IN IF coeffs = PanicSeq THEN PanicSeq
            ELSE SelectSeq(log, LAMBDA x : eval(coeffs, x) = 0)

(***************************************************************************)
(* RIBLT quACK (src/riblt).  A coded symbol is [hash, count].  The count   *)
(* is an 8-bit counter: REMOVE = 255 acts as -1, and a count of 255 is the *)
(* count the decoder compares with -1.                                     *)
(***************************************************************************)
ADD == 1
REMOVE == 255
PRNG_MULTIPLIER == 22709

MaxSymbols == 3
MaxOpSymbols == 9

CountMod == REMOVE + 1
U8Mod == Pow(2, 8)
U16Mod == Pow(2, 16)

\* last_index is a u16 and saturates at u16::MAX (checked_add ...
\* unwrap_or(u16::MAX)); the model scales u16::MAX to FarIndex, an index
\* just outside every sketch that the specifications build
FarIndex == Max(MaxSymbols, MaxOpSymbols) + 1

RandomMappingNew(prng) == [prng |-> prng % U8Mod, last_index |-> 0]

\* next_index: addend = ceil((last_index + 1.5) * (2^8 / sqrt(r + 1) - 1)),
\* the least a with (r + 1) * (2a + 2i + 3)^2 >= 2^16 * (2i + 3)^2, where
\* i is last_index (r + 1 < 2^16 for every 8-bit prng)
next_index(self) ==
    LET r == (self.prng * PRNG_MULTIPLIER) % U16Mod
        i == self.last_index
        Reaches(a) == (r + 1) * (2 * a + 2 * i + 3) * (2 * a + 2 * i + 3)
                          >= U16Mod * (2 * i + 3) * (2 * i + 3)
        near == {a \in 0..(FarIndex - i) : Reaches(a)}
        addend == IF near = {} THEN FarIndex - i
                  ELSE CHOOSE a \in near : \A b \in near : a <= b
    IN [prng |-> r % U8Mod, last_index |-> Min(FarIndex, i + addend)]

\* CodedSymbol::apply
CodedApply(self, hash, direction) ==
    [hash |-> BitXor(self.hash, hash),
     count |-> (self.count + direction) % CountMod]

wrapping_neg(count) == (CountMod - count) % CountMod

\* the loop of insert and remove: apply (t, direction) to every cell of the
\* mapping of t that lies in the sketch
RECURSIVE RibltApplyAll(_, _, _, _)
RibltApplyAll(sketch, m, t, direction) ==
    IF m.last_index >= Len(sketch) THEN sketch
    ELSE RibltApplyAll(
             [sketch EXCEPT ![m.last_index + 1] = CodedApply(@, t, direction)],
             next_index(m), t, direction)

RibltNew(num_symbols) ==
    [count |-> 0, last_value |-> None,
     sketch |-> [i \in 1..num_symbols |-> [hash |-> 0, count |-> 0]]]

RibltInsert(self, t) ==
    [count |-> (self.count + 1) % WordMod,
     last_value |-> Some(t),
     sketch |-> RibltApplyAll(self.sketch, RandomMappingNew(t), t, ADD)]

RibltRemove(self, t) ==
    [self EXCEPT
        !.count = (self.count + WordMod - 1) % WordMod,
        !.sketch = RibltApplyAll(self.sketch, RandomMappingNew(t), t, REMOVE)]

\* the outcome of an operation that may panic
Done(q) == [panic |-> FALSE, q |-> q]
Panicked(q) == [panic |-> TRUE, q |-> q]

RibltSubAssign(self, s2) ==
    IF Len(self.sketch) # Len(s2.sketch) THEN Panicked(self)
    ELSE IF self.count < s2.count THEN Panicked(self)
    ELSE Done([self EXCEPT
             !.count = (self.count + WordMod - s2.count) % WordMod,
             !.sketch = [i \in 1..Len(self.sketch) |->
                            CodedApply(self.sketch[i], s2.sketch[i].hash,
                                       wrapping_neg(s2.sketch[i].count))]])

\* a subtraction of the counts that leaves the hashes of the left sketch
RibltSubCountsOnly(self, rhs) ==
    LET threshold == Min(Len(self.sketch), Len(rhs.sketch))
    IN [sketch |-> [i \in 1..threshold |->
                       CodedApply(self.sketch[i], 0,
                                  wrapping_neg(rhs.sketch[i].count))],
        last_value |-> None,
        count |-> (self.count + WordMod - rhs.count) % WordMod]

RibltSub(self, rhs) ==
    LET threshold == Min(Len(self.sketch), Len(rhs.sketch))
    IN [sketch |-> [i \in 1..threshold |->
                       CodedApply(self.sketch[i], rhs.sketch[i].hash,
                                  wrapping_neg(rhs.sketch[i].count))],
        last_value |-> None,
        count |-> (self.count + WordMod - rhs.count) % WordMod]

(***************************************************************************)
(* The peeling decoder (src/riblt/decoder.rs).  Decoder::new receives the  *)
(* coded symbols in order, as add_coded_symbol does with empty windows.    *)
(***************************************************************************)
Decodable(c) ==
    \/ c.count = 1 \/ c.count = REMOVE
    \/ (c.count = 0 /\ c.hash = 0)

DecoderNew(sketch) ==
    [cs |-> sketch,
     remote |-> <<>>,
     decodable |-> SelectSeq([i \in 1..Len(sketch) |-> i - 1],
                             LAMBDA cidx : Decodable(sketch[cidx + 1])),
     decoded |-> 0]

\* a push that also takes the cells of degree 0
PushDecodableAny(decodable, c, cidx) ==
    IF Decodable(c) THEN Append(decodable, cidx) ELSE decodable

\* if self.cs[cidx].count == -1 || self.cs[cidx].count == 1
\*     { self.decodable.push(cidx) }
PushDecodable(decodable, c, cidx) ==
    IF c.count = REMOVE \/ c.count = 1 THEN Append(decodable, cidx) ELSE decodable

RECURSIVE ApplyNewSymbolLoop(_, _, _, _)
ApplyNewSymbolLoop(self, m, t, direction) ==
    IF m.last_index >= Len(self.cs) THEN self
    ELSE LET cidx == m.last_index
             c == CodedApply(self.cs[cidx + 1], t, direction)
             pushed == PushDecodable(self.decodable, c, cidx)
         IN ApplyNewSymbolLoop(
                [self EXCEPT !.cs[cidx + 1] = c, !.decodable = pushed],
                next_index(m), t, direction)

apply_new_symbol(self, t, direction) ==
    ApplyNewSymbolLoop(self, RandomMappingNew(t), t, direction)

\* the body of try_decode's loop for position didx of decodable
TryDecodeBody(self, didx) ==
    LET cidx == self.decodable[didx + 1]
        c == self.cs[cidx + 1]
    IN IF c.count = 1
       THEN LET peeled == apply_new_symbol(self, c.hash, REMOVE)
            IN Done([peeled EXCEPT !.remote = Append(@, c.hash),
                                   !.decoded = @ + 1])
       ELSE IF c.count = REMOVE THEN Panicked(self)
       ELSE IF c.count = 0 THEN Done([self EXCEPT !.decoded = @ + 1])
       ELSE Panicked(self)

\* for didx in 0..self.decodable.len(): the range is fixed when the loop
\* starts
RECURSIVE TryDecodeLoop(_, _, _)
TryDecodeLoop(self, didx, stop) ==
    IF didx >= stop THEN Done([self EXCEPT !.decodable = <<>>])
    ELSE LET step == TryDecodeBody(self, didx)
         IN IF step.panic THEN step
            ELSE TryDecodeLoop(step.q, didx + 1, stop)

try_decode(self) == TryDecodeLoop(self, 0, Len(self.decodable))

DecoderDecoded(self) == self.decoded = Len(self.cs)

\* IBLTQuackU32::decode: None, Some(list), or a panic
RibltDecode(self) ==
    LET dec == try_decode(DecoderNew(self.sketch))
    IN IF dec.panic THEN [panic |-> TRUE, some |-> FALSE, list |-> <<>>]
       ELSE IF DecoderDecoded(dec.q)
       THEN [panic |-> FALSE, some |-> TRUE, list |-> dec.q.remote]
       ELSE [panic |-> FALSE, some |-> FALSE, list |-> <<>>]

(***************************************************************************)
(* quACK operations on the wire (src/power_sum.rs, src/riblt/sketch.rs).   *)
(* A buffer is a sequence of bytes; u32 values are written little-endian.  *)
(***************************************************************************)
\* u32::to_le_bytes and u32::from_le_bytes
U32ToLe(v) ==
    <<v % U8Mod, (v \div U8Mod) % U8Mod, (v \div U16Mod) % U8Mod,
      (v \div (U8Mod * U16Mod)) % U8Mod>>

U32FromLe(b) ==
    b[1] + U8Mod * b[2] + U16Mod * b[3] + U8Mod * U16Mod * b[4]

RECURSIVE WordsToLe(_)
WordsToLe(words) ==
    IF words = <<>> THEN <<>>
    ELSE U32ToLe(Head(words)) \o WordsToLe(Tail(words))

QuackRemove(self, value) ==
    LET size == Len(self.power_sums)
        x == ModNew(value)
        ys == QuackPowers(x, x, size)
    IN [power_sums |-> [i \in 1..size |-> ModSub(self.power_sums[i], ys[i])],
        count |-> (self.count + WordMod - 1) % WordMod,
        last_value |-> IF self.last_value # None /\ self.last_value[1] = value
                       THEN None ELSE self.last_value]

QuackSubAssign(self, rhs) ==
    IF Len(self.power_sums) # Len(rhs.power_sums) THEN Panicked(self)
    ELSE Done([power_sums |-> [i \in 1..Len(self.power_sums) |->
                                  ModSub(self.power_sums[i], rhs.power_sums[i])],
               count |-> (self.count + WordMod - rhs.count) % WordMod,
               last_value |-> None])

\* serialize_with_hint: PanicSeq when last_value.unwrap() fails
QuackSerializeWithHint(self, num_missing) ==
    IF self.last_value = None THEN PanicSeq
    ELSE LET num_symbols == Min(Len(self.power_sums), num_missing)
         IN U32ToLe(self.count) \o U32ToLe(self.last_value[1])
               \o WordsToLe(SubSeq(self.power_sums, 1, num_symbols))

QuackSerialize(self) ==
    IF self.last_value = None THEN PanicSeq
    ELSE U32ToLe(self.count) \o U32ToLe(self.last_value[1])
            \o WordsToLe(self.power_sums)

QuackDeserialize(buf) ==
    LET n == (Len(buf) - 8) \div 4
    IN [count |-> U32FromLe(SubSeq(buf, 1, 4)),
        last_value |-> Some(ModNew(U32FromLe(SubSeq(buf, 5, 8)))),
        power_sums |-> [i \in 1..n |->
                           U32FromLe(SubSeq(buf, 8 + 4 * (i - 1) + 1, 8 + 4 * i))]]

\* an IBLT quACK hint that always sends four symbols per missing element
RibltHintSymbolsTimesFour(self, num_missing) ==
    Min(Len(self.sketch), 4 * num_missing)

\* the number of coded symbols serialize_with_hint writes
RibltHintSymbols(self, num_missing) ==
    Min(Len(self.sketch),
        IF num_missing = 1 THEN num_missing ELSE 4 * num_missing)

\* serialize_with_hint: the header bytes and the coded symbols copied after
\* them; a panic when last_value.unwrap() fails
RibltSerializeWithHint(self, num_missing) ==
    IF self.last_value = None
    THEN [panic |-> TRUE, header |-> <<>>, symbols |-> <<>>]
    ELSE [panic |-> FALSE,
          header |-> U32ToLe(self.count) \o U32ToLe(self.last_value[1]),
          symbols |-> SubSeq(self.sketch, 1, RibltHintSymbols(self, num_missing))]

(***************************************************************************)
(* The router and the verifier.  The router owns one accumulator of the    *)
(* chosen kind; every packet of the ground-truth log is either forwarded   *)
(* (logged and processed) or dropped (logged only); a malicious router     *)
(* also processes packets that are not logged (Inject).  The verifier then *)
(* validates the accumulator against the log.                              *)
(***************************************************************************)
VARIABLES kind, acc, log, processed, injected, phase, verdict

\* two multiset hashes and the order in which elements were added to each
VARIABLES da, db, oa, ob

\* the accumulator service: the shared accumulator, its mutex and the
\* ingest workers
VARIABLES svcKind, svcInit, svcAcc, lockHolder, pc, cur, done
\* tcp_listen: its position, the snapshots it wrote, the mutex's poison flag
VARIABLES tcpPc, snaps, poisoned

\* two quACKs: the sender's (with its log) and the receiver's, their
\* difference and the last decoding result
VARIABLES qa, qb, qlog, recv, qd, qphase, qout

\* peeling: two RIBLT quACKs with the elements inserted in each, their
\* difference and the decoder working on it; or an IBLT with the elements
\* inserted and removed and the position of eliminate_elems in it
VARIABLES pkMode, ra, rb, sa, sb, rd, dec, tbl, el, pkPhase, pkOut

\* quACK operations: the implementation, two quACKs of it, the number of
\* operations so far and a record of the last one
VARIABLES opImpl, lhs, rhs, opN, last

\* check_truncation: the length of the log, the accumulator's total, the
\* outcome of validate for each number of truncated packets, the bounds of
\* the search and the position in the function
VARIABLES logsLen, accTotal, validates, lo, hi, trPc

accVars == <<kind, acc, log, processed, injected, phase, verdict>>
amhVars == <<da, db, oa, ob>>
svcVars == <<svcKind, svcInit, svcAcc, lockHolder, pc, cur, done,
             tcpPc, snaps, poisoned>>
quackVars == <<qa, qb, qlog, recv, qd, qphase, qout>>

pkVars == <<pkMode, ra, rb, sa, sb, rd, dec, tbl, el, pkPhase, pkOut>>
opVars == <<opImpl, lhs, rhs, opN, last>>
trVars == <<logsLen, accTotal, validates, lo, hi, trPc>>
extVars == <<pkVars, opVars, trVars>>

vars == <<accVars, amhVars, svcVars, quackVars, extVars>>

NoVerdict == [result |-> "None", stage |-> "none"]

\* the parts of the state a specification does not use
AccIdle ==
    /\ kind = "naive" /\ acc = NaiveNew(0) /\ log = <<>>
    /\ processed = EmptyBag /\ injected = 0 /\ phase = "idle"
    /\ verdict = NoVerdict

AmhIdle ==
    /\ da = new_with_seed(0) /\ db = new_with_seed(0)
    /\ oa = <<>> /\ ob = <<>>

SvcIdle ==
    /\ svcKind = "psum" /\ svcInit = PsumNew(1, 0) /\ svcAcc = PsumNew(1, 0)
    /\ lockHolder = 0 /\ pc = <<>> /\ cur = <<>> /\ done = EmptyBag
    /\ tcpPc = "idle" /\ snaps = <<>> /\ poisoned = FALSE

QuackIdle ==
    /\ qa = QuackNew(1) /\ qb = QuackNew(1) /\ qd = QuackNew(1)
    /\ qlog = <<>> /\ recv = <<>> /\ qphase = "idle" /\ qout = <<>>

NoDecoder == [self |-> DecoderNew(<<>>), didx |-> 0, stop |-> 0, peeled |-> <<>>]
NoElim ==
    [i |-> 0, removed |-> FALSE, removed_set |-> {}, peeled |-> <<>>,
     passes |-> 0]
NoPeelOut == [some |-> FALSE, list |-> <<>>, queued |-> 0, processed |-> 0]
PeelIdleTbl == IbltEmpty(DEFAULT_BITS_PER_ENTRY, 1, DEFAULT_NUM_HASHES)

PeelIdle ==
    /\ pkMode = "idle" /\ ra = RibltNew(1) /\ rb = RibltNew(1)
    /\ sa = <<>> /\ sb = <<>> /\ rd = RibltNew(1)
    /\ dec = NoDecoder /\ tbl = PeelIdleTbl /\ el = NoElim
    /\ pkPhase = "idle" /\ pkOut = NoPeelOut

NoOp ==
    [op |-> "none", arg |-> 0, before |-> QuackNew(1), after |-> QuackNew(1),
     res |-> QuackNew(1), panic |-> FALSE, wire |-> <<>>, symbols |-> <<>>]

OpsIdle ==
    /\ opImpl = "idle" /\ lhs = QuackNew(1) /\ rhs = QuackNew(1)
    /\ opN = 0 /\ last = NoOp

TruncIdle ==
    /\ logsLen = 0 /\ accTotal = 0 /\ validates = <<>>
    /\ lo = 0 /\ hi = 0 /\ trPc = "idle"

ExtIdle == PeelIdle /\ OpsIdle /\ TruncIdle
IdleButPeel == OpsIdle /\ TruncIdle
IdleButOps == PeelIdle /\ TruncIdle
IdleButTrunc == PeelIdle /\ OpsIdle
allButPeel == <<accVars, amhVars, svcVars, quackVars, opVars, trVars>>
allButOps == <<accVars, amhVars, svcVars, quackVars, pkVars, trVars>>
allButTrunc == <<accVars, amhVars, svcVars, quackVars, pkVars, opVars>>

Kinds == {"naive", "psum", "iblt", "cbf"}

AccNew(k, threshold, nonce) ==
    CASE k = "naive" -> NaiveNew(nonce)
      [] k = "psum" -> PsumNew(threshold, nonce)
      [] k = "iblt" -> IbltAccNew(threshold, nonce)
      [] k = "cbf" -> CbfAccNew(threshold)

AccProcess(k, self, elem) ==
    CASE k = "naive" -> NaiveProcess(self, elem)
      [] k = "psum" -> PsumProcess(self, elem)
      [] k = "iblt" -> IbltAccProcess(self, elem)
      [] k = "cbf" -> CbfAccProcess(self, elem)

AccTotal(k, self) ==
    CASE k = "naive" -> NaiveTotal(self)
      [] k = "psum" -> PsumTotal(self)
      [] k = "iblt" -> IbltAccTotal(self)
      [] k = "cbf" -> CbfAccTotal(self)

\* process panicked (only the CBF's insert can)
AccPanicked(k, self) == IF k = "cbf" THEN self.cbf.overflow ELSE FALSE

InitAcc ==
    /\ kind \in Kinds
    /\ \E nonce \in Nonces, threshold \in 1..MaxThreshold :
         acc = AccNew(kind, threshold, nonce)
    /\ log = <<>>
    /\ processed = EmptyBag
    /\ injected = 0
    /\ phase = "ingest"
    /\ verdict = NoVerdict
    /\ AmhIdle /\ SvcIdle /\ QuackIdle /\ ExtIdle

\* process(elem) on the router; a panic ends the run
Process(e) ==
    LET next == AccProcess(kind, acc, e)
    IN /\ acc' = next
       /\ IF AccPanicked(kind, next)
          THEN /\ phase' = "crashed"
               /\ verdict' = [result |-> "Panic", stage |-> "process"]
          ELSE UNCHANGED <<phase, verdict>>

\* the sender logs e and the router forwards it
Forward(e) ==
    /\ phase = "ingest"
    /\ Len(log) < MaxLog
    /\ log' = Append(log, e)
    /\ Process(e)
    /\ processed' = [processed EXCEPT ![e] = @ + 1]
    /\ UNCHANGED <<kind, injected>>
    /\ UNCHANGED <<amhVars, svcVars, quackVars, extVars>>

\* the sender logs e and the router drops it
Drop(e) ==
    /\ phase = "ingest"
    /\ Len(log) < MaxLog
    /\ log' = Append(log, e)
    /\ UNCHANGED <<kind, acc, processed, injected, phase, verdict>>
    /\ UNCHANGED <<amhVars, svcVars, quackVars, extVars>>

\* the router processes an element the sender did not send
Inject(e) ==
    /\ phase = "ingest"
    /\ injected < MaxInject
    /\ Process(e)
    /\ processed' = [processed EXCEPT ![e] = @ + 1]
    /\ injected' = injected + 1
    /\ UNCHANGED <<kind, log>>
    /\ UNCHANGED <<amhVars, svcVars, quackVars, extVars>>

ValidateNaive ==
    /\ phase = "ingest"
    /\ kind = "naive"
    /\ \E vn \in Nonces :
         verdict' = [result |-> IF NaiveValidate(acc, log, vn)
                                THEN "Valid" ELSE "Invalid",
                     stage |-> "combinations"]
    /\ phase' = "validated"
    /\ UNCHANGED <<kind, acc, log, processed, injected>>
    /\ UNCHANGED <<amhVars, svcVars, quackVars, extVars>>

ValidatePsum ==
    /\ phase = "ingest"
    /\ kind = "psum"
    /\ \E vn \in Nonces, ncpus \in 1..MaxCpus, emptyYields \in BOOLEAN :
         verdict' = PsumValidate(acc, log, vn, ncpus, emptyYields)
    /\ phase' = "validated"
    /\ UNCHANGED <<kind, acc, log, processed, injected>>
    /\ UNCHANGED <<amhVars, svcVars, quackVars, extVars>>

ValidateIblt ==
    /\ phase = "ingest"
    /\ kind = "iblt"
    /\ \E vn \in Nonces : verdict' \in IbltValidate(acc, log, vn)
    /\ phase' = "validated"
    /\ UNCHANGED <<kind, acc, log, processed, injected>>
    /\ UNCHANGED <<amhVars, svcVars, quackVars, extVars>>

ValidateCbf ==
    /\ phase = "ingest"
    /\ kind = "cbf"
    /\ verdict' \in CbfValidate(acc, log)
    /\ phase' = "validated"
    /\ UNCHANGED <<kind, acc, log, processed, injected>>
    /\ UNCHANGED <<amhVars, svcVars, quackVars, extVars>>

NextAcc ==
    \/ \E e \in Elems : Forward(e)
    \/ \E e \in Elems : Drop(e)
    \/ \E e \in Elems : Inject(e)
    \/ ValidateNaive
    \/ ValidatePsum
    \/ ValidateIblt
    \/ ValidateCbf

SpecAcc == InitAcc /\ [][NextAcc]_vars

(***************************************************************************)
(* The same router and verifier with an IBLT accumulator made by           *)
(* new_with_params: narrower counters and other table sizes.               *)
(***************************************************************************)
MaxMultiplier == 3

ParamBits == {1, DEFAULT_BITS_PER_ENTRY}

InitDiff ==
    /\ kind = "iblt"
    /\ \E threshold \in 1..MaxThreshold, bits \in ParamBits,
          mult \in DEFAULT_CELLS_MULTIPLIER..MaxMultiplier :
         acc = IbltAccNewWithParams(threshold, bits, mult,
                                    DEFAULT_NUM_HASHES, 0)
    /\ log = <<>>
    /\ processed = EmptyBag
    /\ injected = 0
    /\ phase = "ingest"
    /\ verdict = NoVerdict
    /\ AmhIdle /\ SvcIdle /\ QuackIdle /\ ExtIdle

NextDiff ==
    \/ \E e \in Elems : Forward(e)
    \/ \E e \in Elems : Drop(e)
    \/ \E e \in Elems : Inject(e)
    \/ ValidateIblt

SpecDiff == InitDiff /\ [][NextDiff]_vars

\* the number of apparent drops, and whether the router was honest
(***************************************************************************)
(* check_truncation (src/verifier/src/main.rs).  main calls it after the   *)
(* whole log has validated (and after asserting total <= |logs|);          *)
(* validates[k + 1] is what accumulator.validate returns for the log       *)
(* without its last k packets.                                             *)
(***************************************************************************)
MaxLogs == 6

InitTrunc ==
    /\ logsLen \in 0..MaxLogs
    /\ accTotal \in 0..logsLen
    /\ validates \in [1..(logsLen - accTotal + 1) -> BOOLEAN]
    /\ validates[1]
    /\ lo = 0
    /\ hi = logsLen - accTotal
    /\ trPc = "loop"
    /\ AccIdle /\ AmhIdle /\ SvcIdle /\ QuackIdle /\ IdleButTrunc

\* one iteration of `while lo != hi`
TruncStep ==
    /\ trPc = "loop"
    /\ lo # hi
    /\ LET mid == (lo + hi) \div 2
       IN IF validates[mid + 1]
          THEN lo' = mid + 1 /\ hi' = hi
          ELSE hi' = mid /\ lo' = lo
    /\ UNCHANGED <<logsLen, accTotal, validates, trPc>>
    /\ UNCHANGED allButTrunc

\* the loop ends and lo is returned
TruncReturn ==
    /\ trPc = "loop"
    /\ lo = hi
    /\ trPc' = "returned"
    /\ UNCHANGED <<logsLen, accTotal, validates, lo, hi>>
    /\ UNCHANGED allButTrunc

NextTrunc == TruncStep \/ TruncReturn

SpecTrunc == InitTrunc /\ [][NextTrunc]_vars

Dropped == Len(log) - AccTotal(kind, acc)
Honest == SubBag(processed, BagOfSeq(log))

(***************************************************************************)
(* Two additive multiset hashes with arbitrary nonces, filled by add and   *)
(* add_all in any order (digest/src/mset.rs).                              *)
(***************************************************************************)
\* sequences over S of length at most n
SeqsUpTo(S, n) == UNION {[1..k -> S] : k \in 0..n}

InitAmh ==
    /\ \E na \in Nonces, nb \in Nonces :
         da = new_with_seed(na) /\ db = new_with_seed(nb)
    /\ oa = <<>> /\ ob = <<>>
    /\ AccIdle /\ SvcIdle /\ QuackIdle /\ ExtIdle

AmhAddA(e) ==
    /\ Len(oa) < MaxAdds
    /\ da' = DigestAdd(da, e)
    /\ oa' = Append(oa, e)
    /\ UNCHANGED <<db, ob>>
    /\ UNCHANGED <<accVars, svcVars, quackVars, extVars>>

AmhAddB(e) ==
    /\ Len(ob) < MaxAdds
    /\ db' = DigestAdd(db, e)
    /\ ob' = Append(ob, e)
    /\ UNCHANGED <<da, oa>>
    /\ UNCHANGED <<accVars, svcVars, quackVars, extVars>>

AmhAddAllA(elems) ==
    /\ Len(oa) + Len(elems) <= MaxAdds
    /\ da' = DigestAddAll(da, elems)
    /\ oa' = oa \o elems
    /\ UNCHANGED <<db, ob>>
    /\ UNCHANGED <<accVars, svcVars, quackVars, extVars>>

AmhAddAllB(elems) ==
    /\ Len(ob) + Len(elems) <= MaxAdds
    /\ db' = DigestAddAll(db, elems)
    /\ ob' = ob \o elems
    /\ UNCHANGED <<da, oa>>
    /\ UNCHANGED <<accVars, svcVars, quackVars, extVars>>

NextAmh ==
    \/ \E e \in Elems : AmhAddA(e)
    \/ \E e \in Elems : AmhAddB(e)
    \/ \E elems \in SeqsUpTo(Elems, MaxAdds) : AmhAddAllA(elems)
    \/ \E elems \in SeqsUpTo(Elems, MaxAdds) : AmhAddAllB(elems)

SpecAmh == InitAmh /\ [][NextAmh]_vars

(***************************************************************************)
(* The accumulator service (accumulator/src/main.rs): ingest workers share *)
(* one accumulator behind a mutex.  A worker takes the lock for a packet,  *)
(* runs process (the digest, then the sketch) and drops the lock.          *)
(***************************************************************************)
Workers == 1..NumWorkers

SvcKinds == {"psum", "iblt"}

\* a lock that anyone can take at any time
LockFreeAlways(holder) == TRUE

\* accumulator.lock() succeeds when nobody holds the mutex
LockFree(holder) == holder = 0

\* the second statement of process: the power sums or the IBLT
UpdateSketchOf(k, self, elem) ==
    IF k = "psum"
    THEN [self EXCEPT !.power_sums = AddPowers(@, PsumImage(elem))]
    ELSE [self EXCEPT !.iblt = IbltInsert(@, elem)]

\* the identity of the tcp_listen task as a holder of the mutex
Tcp == NumWorkers + 1

\* to_bytes of the shared accumulator
ToBytesOf(k, self) == IF k = "psum" THEN PsumToBytes(self) ELSE IbltAccToBytes(self)

\* the count field of the bytes written by to_bytes
SerializedCount(k, bytes) ==
    from_bytes_le(SubSeq(bytes, NBYTES_HASH + 1,
                         NBYTES_HASH + (IF k = "psum" THEN 2 ELSE 4)))

InitSvc ==
    /\ svcKind \in SvcKinds
    /\ \E nonce \in Nonces, threshold \in 1..MaxThreshold :
         svcInit = AccNew(svcKind, threshold, nonce)
    /\ svcAcc = svcInit
    /\ lockHolder = 0
    /\ pc = [w \in Workers |-> "idle"]
    /\ cur = [w \in Workers |-> 0]
    /\ done = EmptyBag
    /\ tcpPc = "idle" /\ snaps = <<>> /\ poisoned = FALSE
    /\ AccIdle /\ AmhIdle /\ QuackIdle /\ ExtIdle

\* let mut accumulator = accumulator.lock().unwrap(), for packet e
Acquire(w, e) ==
    /\ pc[w] = "idle"
    /\ LockFree(lockHolder)
    /\ ~poisoned
    /\ BagSize(done) + Cardinality({v \in Workers : pc[v] # "idle"}) < MaxPackets
    /\ lockHolder' = w
    /\ pc' = [pc EXCEPT ![w] = "locked"]
    /\ cur' = [cur EXCEPT ![w] = e]
    /\ UNCHANGED <<svcKind, svcInit, svcAcc, done, tcpPc, snaps, poisoned>>
    /\ UNCHANGED <<accVars, amhVars, quackVars, extVars>>

\* accumulator.lock().unwrap() on a poisoned mutex: the worker panics
AcquirePoisoned(w) ==
    /\ pc[w] = "idle"
    /\ LockFree(lockHolder)
    /\ poisoned
    /\ pc' = [pc EXCEPT ![w] = "panicked"]
    /\ UNCHANGED <<svcKind, svcInit, svcAcc, lockHolder, cur, done,
                   tcpPc, snaps, poisoned>>
    /\ UNCHANGED <<accVars, amhVars, quackVars, extVars>>

\* self.digest.add(elem)
AddDigest(w) ==
    /\ pc[w] = "locked"
    /\ svcAcc' = [svcAcc EXCEPT !.digest = DigestAdd(@, cur[w])]
    /\ pc' = [pc EXCEPT ![w] = "added"]
    /\ UNCHANGED <<svcKind, svcInit, lockHolder, cur, done, tcpPc, snaps, poisoned>>
    /\ UNCHANGED <<accVars, amhVars, quackVars, extVars>>

\* the power-sum loop, or self.iblt.insert(elem)
UpdateSketch(w) ==
    /\ pc[w] = "added"
    /\ svcAcc' = UpdateSketchOf(svcKind, svcAcc, cur[w])
    /\ pc' = [pc EXCEPT ![w] = "processed"]
    /\ UNCHANGED <<svcKind, svcInit, lockHolder, cur, done, tcpPc, snaps, poisoned>>
    /\ UNCHANGED <<accVars, amhVars, quackVars, extVars>>

\* drop(accumulator)
Release(w) ==
    /\ pc[w] = "processed"
    /\ lockHolder' = 0
    /\ pc' = [pc EXCEPT ![w] = "idle"]
    /\ done' = [done EXCEPT ![cur[w]] = @ + 1]
    /\ UNCHANGED <<svcKind, svcInit, svcAcc, cur, tcpPc, snaps, poisoned>>
    /\ UNCHANGED <<accVars, amhVars, quackVars, extVars>>

\* tcp_listen, a connection comes in: let accumulator = accumulator.lock().unwrap()
TcpLock ==
    /\ tcpPc = "idle"
    /\ Len(snaps) < MaxConns
    /\ LockFree(lockHolder)
    /\ ~poisoned
    /\ lockHolder' = Tcp
    /\ tcpPc' = "locked"
    /\ UNCHANGED <<svcKind, svcInit, svcAcc, pc, cur, done, snaps, poisoned>>
    /\ UNCHANGED <<accVars, amhVars, quackVars, extVars>>

\* let bytes = accumulator.to_bytes(); a panic unwinds through the guard,
\* which unlocks and poisons the mutex, and ends the task
TcpToBytes ==
    /\ tcpPc = "locked"
    /\ LET out == ToBytesOf(svcKind, svcAcc)
       IN /\ snaps' = Append(snaps, [acc |-> svcAcc, out |-> out,
                                     done |-> done])
          /\ IF out.panic
             THEN /\ tcpPc' = "panicked"
                  /\ lockHolder' = 0
                  /\ poisoned' = TRUE
             ELSE /\ tcpPc' = "serialized"
                  /\ UNCHANGED <<lockHolder, poisoned>>
    /\ UNCHANGED <<svcKind, svcInit, svcAcc, pc, cur, done>>
    /\ UNCHANGED <<accVars, amhVars, quackVars, extVars>>

\* drop(accumulator); stream.write(&bytes)
TcpDrop ==
    /\ tcpPc = "serialized"
    /\ lockHolder' = 0
    /\ tcpPc' = "idle"
    /\ UNCHANGED <<svcKind, svcInit, svcAcc, pc, cur, done, snaps, poisoned>>
    /\ UNCHANGED <<accVars, amhVars, quackVars, extVars>>

NextSvc ==
    \/ \E w \in Workers, e \in Elems : Acquire(w, e)
    \/ \E w \in Workers : AcquirePoisoned(w)
    \/ \E w \in Workers : AddDigest(w)
    \/ \E w \in Workers : UpdateSketch(w)
    \/ \E w \in Workers : Release(w)
    \/ TcpLock
    \/ TcpToBytes
    \/ TcpDrop

SpecSvc == InitSvc /\ [][NextSvc]_vars

\* process applied to the elements of a sequence, one after another
RECURSIVE ProcessAll(_, _, _)
ProcessAll(k, self, elems) ==
    IF elems = <<>> THEN self
    ELSE ProcessAll(k, AccProcess(k, self, Head(elems)), Tail(elems))

(***************************************************************************)
(* Two power-sum quACKs (src/power_sum.rs): the sender inserts every       *)
(* element it sends and logs it, the receiver inserts what it receives.    *)
(* The sender then subtracts the receiver's quACK from its own and decodes *)
(* the difference against its log, or converts it to coefficients.         *)
(***************************************************************************)
\* 32-bit identifiers; the last one is congruent to 1 modulo MODULUS
QElems == {1, 2, 3, MODULUS + 1}

NoOutput == [decoded |-> <<>>, coeffs |-> <<>>, buf |-> <<>>, written |-> <<>>]

\* the vectors a caller may pass to to_coeffs_preallocated: one entry per
\* element, holding zeros or values of an earlier use
Buffers(n) == IF n <= MaxSent THEN [1..n -> {0, 1}] ELSE {[i \in 1..n |-> 0]}

InitQuack ==
    /\ \E ta \in 1..MaxQThreshold, tb \in 1..MaxQThreshold :
         qa = QuackNew(ta) /\ qb = QuackNew(tb)
    /\ qlog = <<>> /\ recv = <<>>
    /\ qd = QuackNew(1)
    /\ qphase = "build"
    /\ qout = NoOutput
    /\ AccIdle /\ AmhIdle /\ SvcIdle /\ ExtIdle

\* the sender inserts x and logs it
QSend(x) ==
    /\ qphase = "build"
    /\ Len(qlog) < MaxSent
    /\ qa' = QuackInsert(qa, x)
    /\ qlog' = Append(qlog, x)
    /\ UNCHANGED <<qb, recv, qd, qphase, qout>>
    /\ UNCHANGED <<accVars, amhVars, svcVars, extVars>>

\* the receiver inserts x
QRecv(x) ==
    /\ qphase = "build"
    /\ Len(recv) < MaxRecv
    /\ qb' = QuackInsert(qb, x)
    /\ recv' = Append(recv, x)
    /\ UNCHANGED <<qa, qlog, qd, qphase, qout>>
    /\ UNCHANGED <<accVars, amhVars, svcVars, extVars>>

\* qd = qa.sub(&qb)
QSubtract ==
    /\ qphase = "build"
    /\ qd' = QuackSub(qa, qb)
    /\ qphase' = "subbed"
    /\ UNCHANGED <<qa, qb, qlog, recv, qout>>
    /\ UNCHANGED <<accVars, amhVars, svcVars, extVars>>

\* qd.decode_with_log(&log)
QDecode ==
    /\ qphase = "subbed"
    /\ qout' = [NoOutput EXCEPT !.decoded = decode_with_log(qd, qlog)]
    /\ qphase' = "decoded"
    /\ UNCHANGED <<qa, qb, qlog, recv, qd>>
    /\ UNCHANGED <<accVars, amhVars, svcVars, extVars>>

\* qd.to_coeffs(), and qd.to_coeffs_preallocated(&mut buf)
QToCoeffs ==
    /\ qphase = "subbed"
    /\ \E buf \in Buffers(qd.count) :
         qout' = [NoOutput EXCEPT !.coeffs = to_coeffs(qd),
                                  !.buf = buf,
                                  !.written = to_coeffs_preallocated(qd, buf)]
    /\ qphase' = "coeffs"
    /\ UNCHANGED <<qa, qb, qlog, recv, qd>>
    /\ UNCHANGED <<accVars, amhVars, svcVars, extVars>>

NextQuack ==
    \/ \E x \in QElems : QSend(x)
    \/ \E x \in QElems : QRecv(x)
    \/ QSubtract
    \/ QDecode
    \/ QToCoeffs

SpecQuack == InitQuack /\ [][NextQuack]_vars

(***************************************************************************)
(* Peeling.  In mode "riblt" two RIBLT quACKs A and B of the same size     *)
(* receive elements, then A.sub(B).decode() runs, one iteration of         *)
(* try_decode's loop per step.  In mode "iblt" an IBLT receives inserts    *)
(* and removes, then eliminate_elems runs, one cell per step.              *)
(***************************************************************************)
MaxInsA == 3
MaxInsB == 2
MaxTblIns == 3
MaxTblRem == 2
MaxEntries == 5

\* 32-bit identifiers; 257 has the mapping of 1
RElems == {1, 2, 5, 257}

\* the numbers of cells of the IBLT
TblSizes == 2..MaxEntries

InitPeel ==
    /\ pkMode \in {"riblt", "iblt"}
    /\ IF pkMode = "riblt"
       THEN /\ \E m \in 1..MaxSymbols : ra = RibltNew(m) /\ rb = RibltNew(m)
            /\ tbl = PeelIdleTbl
       ELSE /\ ra = RibltNew(1) /\ rb = RibltNew(1)
            /\ \E n \in TblSizes :
                 tbl = IbltEmpty(DEFAULT_BITS_PER_ENTRY, n, DEFAULT_NUM_HASHES)
    /\ sa = <<>> /\ sb = <<>>
    /\ rd = RibltNew(1)
    /\ dec = NoDecoder
    /\ el = NoElim
    /\ pkPhase = "build"
    /\ pkOut = NoPeelOut
    /\ AccIdle /\ AmhIdle /\ SvcIdle /\ QuackIdle /\ IdleButPeel

\* A.insert(t)
RInsertA(t) ==
    /\ pkMode = "riblt" /\ pkPhase = "build"
    /\ Len(sa) < MaxInsA
    /\ ra' = RibltInsert(ra, t)
    /\ sa' = Append(sa, t)
    /\ UNCHANGED <<pkMode, rb, sb, rd, dec, tbl, el, pkPhase, pkOut>>
    /\ UNCHANGED allButPeel

\* B.insert(t)
RInsertB(t) ==
    /\ pkMode = "riblt" /\ pkPhase = "build"
    /\ Len(sb) < MaxInsB
    /\ rb' = RibltInsert(rb, t)
    /\ sb' = Append(sb, t)
    /\ UNCHANGED <<pkMode, ra, sa, rd, dec, tbl, el, pkPhase, pkOut>>
    /\ UNCHANGED allButPeel

\* rd = A.sub(&B)
RSub ==
    /\ pkMode = "riblt" /\ pkPhase = "build"
    /\ rd' = RibltSub(ra, rb)
    /\ pkPhase' = "subbed"
    /\ UNCHANGED <<pkMode, ra, rb, sa, sb, dec, tbl, el, pkOut>>
    /\ UNCHANGED allButPeel

\* rd.decode(): Decoder::new(self.sketch), and the range of try_decode's
\* loop is evaluated
RDecodeStart ==
    /\ pkMode = "riblt" /\ pkPhase = "subbed"
    /\ LET d == DecoderNew(rd.sketch)
       IN dec' = [self |-> d, didx |-> 0, stop |-> Len(d.decodable),
                  peeled |-> <<>>]
    /\ pkPhase' = "decoding"
    /\ UNCHANGED <<pkMode, ra, rb, sa, sb, rd, tbl, el, pkOut>>
    /\ UNCHANGED allButPeel

\* one iteration of the loop of try_decode
RDecodeStep ==
    /\ pkMode = "riblt" /\ pkPhase = "decoding"
    /\ dec.didx < dec.stop
    /\ LET cidx == dec.self.decodable[dec.didx + 1]
           step == TryDecodeBody(dec.self, dec.didx)
       IN IF step.panic
          THEN /\ pkPhase' = "panicked"
               /\ UNCHANGED dec
          ELSE /\ dec' = [self |-> step.q, didx |-> dec.didx + 1,
                          stop |-> dec.stop,
                          peeled |-> IF dec.self.cs[cidx + 1].count = 1
                                     THEN Append(dec.peeled, cidx)
                                     ELSE dec.peeled]
               /\ UNCHANGED pkPhase
    /\ UNCHANGED <<pkMode, ra, rb, sa, sb, rd, tbl, el, pkOut>>
    /\ UNCHANGED allButPeel

\* the loop ends: decodable.clear(), and decode returns Some(remote) or None
RDecodeReturn ==
    /\ pkMode = "riblt" /\ pkPhase = "decoding"
    /\ dec.didx >= dec.stop
    /\ pkOut' = [some |-> DecoderDecoded(dec.self),
                 list |-> dec.self.remote,
                 queued |-> Len(dec.self.decodable),
                 processed |-> dec.didx]
    /\ dec' = [dec EXCEPT !.self.decodable = <<>>]
    /\ pkPhase' = "returned"
    /\ UNCHANGED <<pkMode, ra, rb, sa, sb, rd, tbl, el>>
    /\ UNCHANGED allButPeel

\* tbl.insert(e)
TInsert(e) ==
    /\ pkMode = "iblt" /\ pkPhase = "build"
    /\ Len(sa) < MaxTblIns
    /\ tbl' = IbltInsert(tbl, e)
    /\ sa' = Append(sa, e)
    /\ UNCHANGED <<pkMode, ra, rb, sb, rd, dec, el, pkPhase, pkOut>>
    /\ UNCHANGED allButPeel

\* tbl.remove(e)
TRemove(e) ==
    /\ pkMode = "iblt" /\ pkPhase = "build"
    /\ Len(sb) < MaxTblRem
    /\ tbl' = remove_u32(tbl, elem_to_u32(e))
    /\ sb' = Append(sb, e)
    /\ UNCHANGED <<pkMode, ra, rb, sa, rd, dec, el, pkPhase, pkOut>>
    /\ UNCHANGED allButPeel

\* tbl.eliminate_elems() is called
TElimStart ==
    /\ pkMode = "iblt" /\ pkPhase = "build"
    /\ el' = [NoElim EXCEPT !.passes = 1]
    /\ pkPhase' = "decoding"
    /\ UNCHANGED <<pkMode, ra, rb, sa, sb, rd, dec, tbl, pkOut>>
    /\ UNCHANGED allButPeel

\* one iteration of the inner loop of eliminate_elems, or the start of the
\* next pass
TElimStep ==
    /\ pkMode = "iblt" /\ pkPhase = "decoding"
    /\ \/ el.i < tbl.num_entries \/ el.removed
    /\ IF el.i = tbl.num_entries
       THEN /\ el' = [el EXCEPT !.i = 0, !.removed = FALSE, !.passes = @ + 1]
            /\ UNCHANGED <<tbl, pkPhase>>
       ELSE IF tbl.counters[el.i + 1] # 1
       THEN /\ el' = [el EXCEPT !.i = @ + 1]
            /\ UNCHANGED <<tbl, pkPhase>>
       ELSE LET item == tbl.data[el.i + 1]
            IN /\ tbl' = remove_u32(tbl, item)
               /\ el' = [el EXCEPT !.i = @ + 1, !.removed = TRUE,
                                   !.removed_set = @ \cup {item},
                                   !.peeled = Append(@, el.i)]
               /\ pkPhase' = IF item \in el.removed_set THEN "panicked"
                             ELSE "decoding"
    /\ UNCHANGED <<pkMode, ra, rb, sa, sb, rd, dec, pkOut>>
    /\ UNCHANGED allButPeel

\* a pass removed nothing: eliminate_elems returns removed_set
TElimReturn ==
    /\ pkMode = "iblt" /\ pkPhase = "decoding"
    /\ el.i = tbl.num_entries /\ ~el.removed
    /\ pkOut' = [NoPeelOut EXCEPT !.list = SetToSeq(el.removed_set)]
    /\ pkPhase' = "returned"
    /\ UNCHANGED <<pkMode, ra, rb, sa, sb, rd, dec, tbl, el>>
    /\ UNCHANGED allButPeel

NextPeel ==
    \/ \E t \in RElems : RInsertA(t)
    \/ \E t \in RElems : RInsertB(t)
    \/ RSub
    \/ \E e \in Elems : TInsert(e)
    \/ \E e \in Elems : TRemove(e)
    \/ TElimStart
    \/ RDecodeStart
    \/ RDecodeStep
    \/ RDecodeReturn
    \/ TElimStep
    \/ TElimReturn

SpecPeel == InitPeel /\ [][NextPeel]_vars

(***************************************************************************)
(* quACK operations.  One implementation is chosen ("psum": the power-sum  *)
(* quACK, "riblt": the IBLT quACK); two quACKs lhs and rhs of it receive   *)
(* inserts and removes; lhs is subtracted from (sub_assign, sub) and       *)
(* serialized.  `last` records the last operation: its argument, the       *)
(* quACK before and after, and what it returned.                           *)
(***************************************************************************)
MaxOps == 4
MaxMissing == 2

\* 32-bit identifiers; the last one is congruent to 1 modulo MODULUS
OElems == {1, 2, MODULUS + 1}

OpImpls == {"psum", "riblt"}
OpSizes(impl) == IF impl = "psum" THEN 1..2 ELSE {2, MaxOpSymbols}

NewOf(impl, size) == IF impl = "psum" THEN QuackNew(size) ELSE RibltNew(size)
InsertOf(impl, q, v) ==
    IF impl = "psum" THEN QuackInsert(q, v) ELSE RibltInsert(q, v)
RemoveOf(impl, q, v) ==
    IF impl = "psum" THEN QuackRemove(q, v) ELSE RibltRemove(q, v)
SubAssignOf(impl, l, r) ==
    IF impl = "psum" THEN QuackSubAssign(l, r) ELSE RibltSubAssign(l, r)
SubOf(impl, l, r) == IF impl = "psum" THEN QuackSub(l, r) ELSE RibltSub(l, r)
ThresholdOf(impl, q) ==
    IF impl = "psum" THEN Len(q.power_sums) ELSE Len(q.sketch)

InitOps ==
    /\ opImpl \in OpImpls
    /\ \E tl \in OpSizes(opImpl), tr \in OpSizes(opImpl) :
         lhs = NewOf(opImpl, tl) /\ rhs = NewOf(opImpl, tr)
    /\ opN = 0
    /\ last = NoOp
    /\ AccIdle /\ AmhIdle /\ SvcIdle /\ QuackIdle /\ IdleButOps

\* lhs.insert(v)
OInsertLhs(v) ==
    /\ opN < MaxOps
    /\ lhs' = InsertOf(opImpl, lhs, v)
    /\ last' = [NoOp EXCEPT !.op = "insert", !.arg = v,
                            !.before = lhs, !.after = lhs']
    /\ opN' = opN + 1
    /\ UNCHANGED <<opImpl, rhs>>
    /\ UNCHANGED allButOps

\* rhs.insert(v)
OInsertRhs(v) ==
    /\ opN < MaxOps
    /\ rhs' = InsertOf(opImpl, rhs, v)
    /\ last' = [NoOp EXCEPT !.op = "insert", !.arg = v,
                            !.before = rhs, !.after = rhs']
    /\ opN' = opN + 1
    /\ UNCHANGED <<opImpl, lhs>>
    /\ UNCHANGED allButOps

\* lhs.remove(v)
ORemove(v) ==
    /\ opN < MaxOps
    /\ lhs' = RemoveOf(opImpl, lhs, v)
    /\ last' = [NoOp EXCEPT !.op = "remove", !.arg = v,
                            !.before = lhs, !.after = lhs']
    /\ opN' = opN + 1
    /\ UNCHANGED <<opImpl, rhs>>
    /\ UNCHANGED allButOps

\* lhs.sub_assign(&rhs); a panic ends the run
OSubAssign ==
    /\ opN < MaxOps
    /\ LET r == SubAssignOf(opImpl, lhs, rhs)
       IN /\ lhs' = r.q
          /\ last' = [NoOp EXCEPT !.op = "sub_assign", !.before = lhs,
                                  !.after = r.q, !.panic = r.panic]
          /\ opN' = IF r.panic THEN MaxOps + 1 ELSE opN + 1
    /\ UNCHANGED <<opImpl, rhs>>
    /\ UNCHANGED allButOps

\* lhs.sub(&rhs), which returns a new quACK
OSub ==
    /\ opN < MaxOps
    /\ last' = [NoOp EXCEPT !.op = "sub", !.before = lhs,
                            !.after = lhs, !.res = SubOf(opImpl, lhs, rhs)]
    /\ opN' = opN + 1
    /\ UNCHANGED <<opImpl, lhs, rhs>>
    /\ UNCHANGED allButOps

\* PowerSumQuackU32: lhs.serialize(&mut buf) and deserialize(&buf[..len])
OSerialize ==
    /\ opN < MaxOps
    /\ opImpl = "psum"
    /\ LET wire == QuackSerialize(lhs)
       IN last' = [NoOp EXCEPT
                      !.op = "serialize", !.before = lhs, !.after = lhs,
                      !.panic = (wire = PanicSeq), !.wire = wire,
                      !.res = IF wire = PanicSeq THEN lhs
                              ELSE QuackDeserialize(wire)]
    /\ opN' = IF last'.panic THEN MaxOps + 1 ELSE opN + 1
    /\ UNCHANGED <<opImpl, lhs, rhs>>
    /\ UNCHANGED allButOps

\* PowerSumQuackU32: lhs.serialize_with_hint(&mut buf, n) and deserialize
OSerializeHint(n) ==
    /\ opN < MaxOps
    /\ opImpl = "psum"
    /\ LET wire == QuackSerializeWithHint(lhs, n)
       IN last' = [NoOp EXCEPT
                      !.op = "serialize_with_hint", !.arg = n,
                      !.before = lhs, !.after = lhs,
                      !.panic = (wire = PanicSeq), !.wire = wire,
                      !.res = IF wire = PanicSeq THEN lhs
                              ELSE QuackDeserialize(wire)]
    /\ opN' = IF last'.panic THEN MaxOps + 1 ELSE opN + 1
    /\ UNCHANGED <<opImpl, lhs, rhs>>
    /\ UNCHANGED allButOps

\* IBLTQuackU32: lhs.serialize_with_hint(&mut buf, n)
OSketchHint(n) ==
    /\ opN < MaxOps
    /\ opImpl = "riblt"
    /\ LET out == RibltSerializeWithHint(lhs, n)
       IN last' = [NoOp EXCEPT
                      !.op = "serialize_with_hint", !.arg = n,
                      !.before = lhs, !.after = lhs,
                      !.panic = out.panic, !.wire = out.header,
                      !.symbols = out.symbols]
    /\ opN' = IF last'.panic THEN MaxOps + 1 ELSE opN + 1
    /\ UNCHANGED <<opImpl, lhs, rhs>>
    /\ UNCHANGED allButOps

NextOps ==
    \/ \E v \in OElems : OInsertLhs(v)
    \/ \E v \in OElems : OInsertRhs(v)
    \/ \E v \in OElems : ORemove(v)
    \/ OSubAssign
    \/ OSub
    \/ OSerialize
    \/ \E n \in 0..MaxMissing : OSerializeHint(n)
    \/ \E n \in 0..MaxMissing : OSketchHint(n)

SpecOps == InitOps /\ [][NextOps]_vars

(***************************************************************************)
(* Properties of the accumulators, checked under SpecAcc.                  *)
(***************************************************************************)
Validated == phase = "validated"
Accepted == verdict.result \in {"Valid", "PsumCollisionsValid"}
NumProcessed == BagSize(processed)

\* C1: power-sum completeness -- an accumulator that processed the log
\* minus at most `threshold` dropped elements gets a valid result
\* (Valid or PsumCollisionsValid) from validate(log).
C1_Completeness ==
    (Validated /\ kind = "psum" /\ Honest
        /\ Len(log) - NumProcessed <= Len(acc.power_sums))
    => Accepted

\* C2: soundness of the naive, power-sum and IBLT accumulators -- whenever
\* validate(log) returns a valid result, the processed multiset is a
\* sub-multiset of the log.
C2_Soundness ==
    (Validated /\ kind \in {"naive", "psum", "iblt"} /\ Accepted)
    => Honest

\* an accepted IBLT accumulator whose router dropped two elements
C2_Witness ==
    /\ Validated /\ kind = "iblt" /\ Accepted
    /\ Len(log) - NumProcessed >= 2
    /\ NumProcessed >= 1

\* C3: for the power-sum, CBF and IBLT accumulators, a log shorter than
\* the number of processed elements is rejected as Invalid by the size
\* check, before any difference, decode or digest step.
C3_SizeMismatch ==
    (Validated /\ kind \in {"psum", "cbf", "iblt"} /\ Len(log) < NumProcessed)
    => (verdict.result = "Invalid" /\ verdict.stage = "size")

\* an IBLT accumulator validated against a log shorter than what it
\* processed
C3_Witness ==
    /\ Validated /\ kind = "iblt" /\ Len(log) < NumProcessed
    /\ verdict.stage = "size"

C5_FoldHash(S, vn) ==
    (hash_fn(0, vn)
        + SumSeq([n \in 1..Len(SetToSeq(S)) |->
                     hash_fn(1, log[SetToSeq(S)[n]])])) % HashMod

C5_Matches(S, vn) ==
    (C5_FoldHash(S, vn) + hash_fn(0, acc.digest.nonce)) % HashMod
        = (acc.digest.hash + hash_fn(0, vn)) % HashMod

\* C5: the naive validate returns true iff some choice of total()
\* positions of the log folds to a digest equal to the stored one under
\* the nonce-shifted comparison, whatever the fresh nonce; with
\* total() > |log| there is no such choice and it returns false.
C5_NaiveValidate ==
    (Validated /\ kind = "naive")
    => /\ \A vn \in Nonces :
            (verdict.result = "Valid") <=>
            (\E S \in SUBSET (1..Len(log)) :
                Cardinality(S) = NaiveTotal(acc) /\ C5_Matches(S, vn))
       /\ (NaiveTotal(acc) > Len(log) => verdict.result = "Invalid")

\* a naive accumulator accepted after two of three logged elements were
\* dropped
C5_Witness ==
    /\ Validated /\ kind = "naive" /\ verdict.result = "Valid"
    /\ Len(log) = 3 /\ NaiveTotal(acc) = 1


\* the number of dropped log elements whose masked image is r: the
\* multiplicity of the root r for an honest router
C19_Multiplicity(r) ==
    SumSeq([n \in 1..NumElems |->
               IF PsumImage(n) = r THEN CountIn(log, n) - processed[n] ELSE 0])

\* r is a root with more candidates in the log than its multiplicity, not
\* all of them the same element
C19_Colliding(r) ==
    /\ C19_Multiplicity(r) > 0
    /\ Len(Collisions(log, r)) > C19_Multiplicity(r)
    /\ Cardinality({Collisions(log, r)[n] : n \in 1..Len(Collisions(log, r))}) > 1

\* C19: preimage-collision handling -- when a recovered root has more
\* candidate log elements than its multiplicity, not all the same element,
\* validate tries the choices of kept candidates and returns
\* PsumCollisionsValid for an honest router that dropped m of the c
\* image-colliding elements, also when some candidates are repeated.
C19_CollisionHandling ==
    (Validated /\ kind = "psum" /\ Honest
        /\ Len(log) - NumProcessed <= Len(acc.power_sums)
        /\ (\A n \in 1..Len(log) : PsumImage(log[n]) # 0)
        /\ \E r \in 1..DJB_MASK : C19_Colliding(r))
    => verdict.result = "PsumCollisionsValid"

(***************************************************************************)
(* Properties of the multiset hash, checked under SpecAmh.                 *)
(***************************************************************************)
\* C6: the additive multiset hash is order- and nonce-independent -- two
\* digests with arbitrary nonces that received the same multiset, in any
\* orders, by add or add_all, have equal counts and equals() is true in
\* both directions.
C6_OrderNonceIndependent ==
    (BagOfSeq(oa) = BagOfSeq(ob))
    => /\ da.count = db.count
       /\ DigestEquals(da, db)
       /\ DigestEquals(db, da)

\* the same three elements, not all equal, added in different orders to
\* digests with different nonces
C6_Witness ==
    /\ BagOfSeq(oa) = BagOfSeq(ob)
    /\ Len(oa) = 3 /\ oa # ob
    /\ da.nonce # db.nonce
    /\ DigestEquals(da, db)

(***************************************************************************)
(* Properties of the accumulator service, checked under SpecSvc.           *)
(***************************************************************************)
\* C7: concurrent-insert determinism -- whenever the mutex is free, the
\* shared power-sum or IBLT accumulator (digest hash, count, power sums or
\* IBLT counters and data) is the one obtained by processing the multiset
\* of completed process() calls in one fixed order, whatever the
\* interleaving of the workers was.
C7_InsertDeterminism ==
    (lockHolder = 0)
    => svcAcc = ProcessAll(svcKind, svcInit, BagToSeq(done))

\* three packets, not in increasing order of arrival, processed by two
\* different workers
C7_Witness ==
    /\ lockHolder = 0
    /\ BagSize(done) = 3
    /\ cur[1] > cur[2] /\ cur[2] > 0
    /\ svcKind = "iblt"
    /\ svcAcc = ProcessAll(svcKind, svcInit, BagToSeq(done))

(***************************************************************************)
(* Properties of the quACK, checked under SpecQuack.  The sender's quACK   *)
(* holds A (its log), the receiver's holds B (recv); S = A - B.            *)
(***************************************************************************)
Mult(x) == CountIn(qlog, x) - CountIn(recv, x)
RecvSubset == \A x \in QElems : Mult(x) >= 0
SameThreshold == Len(qa.power_sums) = Len(qb.power_sums)
SizeS == Len(qlog) - Len(recv)
QElemSeq == SetToSeq(QElems)

\* the j-th power sum of S, from its definition
PowerSumOfS(j) ==
    SumSeq([n \in 1..Len(QElemSeq) |->
               Mult(QElemSeq[n]) * Pow(QElemSeq[n] % MODULUS, j)]) % MODULUS

\* C8: for quACKs of equal threshold with B a sub-multiset of A,
\* q(A).sub(q(B)) has the power sums and the count of a quACK holding
\* exactly A minus B.
C8_SubIsDifference ==
    (qphase = "subbed" /\ SameThreshold /\ RecvSubset)
    => /\ qd.count = SizeS
       /\ Len(qd.power_sums) = Len(qa.power_sums)
       /\ \A j \in 1..Len(qd.power_sums) : qd.power_sums[j] = PowerSumOfS(j)

\* a difference of one element: q(A + {x}).sub(q(A)) with A of two elements
C8_Witness ==
    /\ qphase = "subbed" /\ SameThreshold /\ RecvSubset
    /\ Len(recv) = 2 /\ SizeS = 1
    /\ Len(qa.power_sums) = 3
    /\ \A j \in 1..3 : qd.power_sums[j] = PowerSumOfS(j)

Holds == SameThreshold /\ RecvSubset /\ SizeS <= Len(qd.power_sums)

\* C9 as stated: for a quACK holding S with 1 <= |S| = count <= threshold,
\* decode_with_log(log) returns exactly the subsequence of the log made of
\* the members of S, with the log's multiplicities; a log element not in
\* S is never returned; with count 0 it returns the empty list.
C9_DecodeMembers ==
    /\ (qphase = "decoded" /\ Holds /\ SizeS >= 1)
       => qout.decoded = SelectSeq(qlog, LAMBDA x : Mult(x) > 0)
    /\ (qphase = "decoded" /\ qd.count = 0) => qout.decoded = <<>>

\* x is congruent modulo the field's prime to a member of S
CongruentToMember(x) ==
    \E m \in QElems : Mult(m) > 0 /\ m % MODULUS = x % MODULUS

\* C9: for a quACK holding S with 1 <= |S| = count <= threshold,
\* decode_with_log(log) returns exactly the subsequence of the log made of
\* the elements congruent modulo the prime to a member of S, with the
\* log's multiplicities; with count 0 it returns the empty list.
C9_DecodeCongruent ==
    /\ (qphase = "decoded" /\ Holds /\ SizeS >= 1)
       => qout.decoded = SelectSeq(qlog, CongruentToMember)
    /\ (qphase = "decoded" /\ qd.count = 0) => qout.decoded = <<>>

\* S holds one element that the log holds twice, next to a log element
\* that is not in S
C9_Witness ==
    /\ qphase = "decoded" /\ Holds /\ SizeS = 1
    /\ Len(qlog) = 3 /\ Len(qout.decoded) = 2
    /\ qout.decoded[1] = qout.decoded[2]

\* the elements of S, each as often as S holds it
RECURSIVE SeqOfS(_)
SeqOfS(xs) ==
    IF xs = <<>> THEN <<>>
    ELSE [i \in 1..Mult(Head(xs)) |-> Head(xs)] \o SeqOfS(Tail(xs))

\* the coefficients, leading one first, of poly * (x - m) over GF(MODULUS)
TimesLinear(poly, m) ==
    [k \in 1..(Len(poly) + 1) |->
        ((IF k <= Len(poly) THEN poly[k] ELSE 0)
            + (MODULUS - (m % MODULUS)) * (IF k > 1 THEN poly[k - 1] ELSE 0))
        % MODULUS]

RECURSIVE ProductPoly(_)
ProductPoly(ms) ==
    IF ms = <<>> THEN <<1>>
    ELSE TimesLinear(ProductPoly(Tail(ms)), Head(ms))

\* C10: for a quACK holding S with |S| = count <= threshold, to_coeffs
\* returns the non-leading coefficients c_1..c_n of prod (x - s) over
\* GF(q), the empty vector when count is 0, and to_coeffs_preallocated
\* writes the same values.
C10_Coeffs ==
    (qphase = "coeffs" /\ Holds)
    => /\ qout.coeffs = Tail(ProductPoly(SeqOfS(QElemSeq)))
       /\ qout.written = qout.coeffs


(***************************************************************************)
(* RIBLT quACK: decoding the difference of two sketches.                   *)
(***************************************************************************)
DistinctSeq(s) == \A i, j \in 1..Len(s) : s[i] = s[j] => i = j
SetOf(s) == {s[i] : i \in 1..Len(s)}

\* A and B hold sets of distinct elements and S_B is a subset of S_A
SubsetSketches ==
    /\ pkMode = "riblt"
    /\ DistinctSeq(sa) /\ DistinctSeq(sb)
    /\ SetOf(sb) \subseteq SetOf(sa)

C12_WireRoundTrip ==
    /\ (opImpl = "psum" /\ last.op = "serialize") =>
          ~last.panic /\ last.res = last.before
    /\ (opImpl = "psum" /\ last.op = "serialize_with_hint") =>
          /\ ~last.panic
          /\ last.res =
               [last.before EXCEPT
                   !.power_sums =
                       SubSeq(@, 1, Min(Len(last.before.power_sums), last.arg))]

C14_LastValue ==
    /\ last.op = "insert" => last.after.last_value = Some(last.arg)
    /\ (last.op = "remove" /\ last.before.last_value = Some(last.arg)) =>
          last.after.last_value = None
    /\ (last.op = "remove" /\ last.before.last_value # Some(last.arg)) =>
          last.after.last_value = last.before.last_value

\* C15: for quACKs lhs and rhs of the same type and threshold, lhs.sub(&rhs)
\* yields exactly the state lhs holds after lhs.sub_assign(&rhs), with
\* last_value None, and one of them fails only if the other fails
C15_SubIsSubAssign ==
    LET same == ThresholdOf(opImpl, last.before) = ThresholdOf(opImpl, rhs)
    IN /\ (last.op = "sub" /\ same) =>
             LET assigned == SubAssignOf(opImpl, last.before, rhs)
             IN /\ ~assigned.panic
                /\ last.res = assigned.q
                /\ last.res.last_value = None
       /\ (last.op = "sub_assign" /\ same) =>
             /\ ~last.panic
             /\ last.after = SubOf(opImpl, last.before, rhs)
             /\ last.after.last_value = None


(***************************************************************************)
(* Peeling: termination and the decodable queue.                           *)
(***************************************************************************)
\* C16: eliminate_elems and try_decode terminate on every IBLT state and
\* every sketch, peeling a given cell as a count-1 cell at most once: no
\* cell occurs twice among the peeled cells, so eliminate_elems makes at
\* most one pass per cell and a last one that removes nothing, and
\* try_decode stays within the range of its loop
C16_PeelTermination ==
    /\ DistinctSeq(dec.peeled) /\ DistinctSeq(el.peeled)
    /\ el.passes <= tbl.num_entries + 1
    /\ dec.didx <= dec.stop

\* C20: every cell index placed in `decodable`, also while another cell is
\* being peeled, has been processed when try_decode clears the queue and
\* returns
C20_QueueDrained ==
    (pkMode = "riblt" /\ pkPhase = "returned") =>
        pkOut.processed = pkOut.queued

(***************************************************************************)
(* Properties of the bytes the service hands out, checked under SpecSvc.   *)
(* A snapshot holds the accumulator to_bytes was called on, what to_bytes  *)
(* returned, and the process() calls completed by then.                    *)
(***************************************************************************)
\* C17: PowerSumAccumulator byte round-trip -- on every power-sum
\* accumulator reached from new by process calls, to_bytes succeeds and
\* from_bytes of its bytes is the same accumulator (hash, count, nonce and
\* every power sum).
C17_ByteRoundTrip ==
    \A i \in 1..Len(snaps) :
        svcKind = "psum"
        => /\ ~snaps[i].out.panic
           /\ PsumFromBytes(snaps[i].out.bytes) = snaps[i].acc

\* C18: snapshot consistency -- every digest tcp_listen serializes is the
\* accumulator after a whole number of completed process() calls, and the
\* count in the bytes is the number of packets processed by then.
C18_SnapshotConsistency ==
    \A i \in 1..Len(snaps) :
        ~snaps[i].out.panic
        => /\ snaps[i].acc =
                ProcessAll(svcKind, svcInit, BagToSeq(snaps[i].done))
           /\ SerializedCount(svcKind, snaps[i].out.bytes) =
                BagSize(snaps[i].done)

\* two snapshots taken between packets: one after the first packet, one
\* after the third
C18_Witness ==
    /\ Len(snaps) = 2
    /\ ~snaps[1].out.panic /\ ~snaps[2].out.panic
    /\ BagSize(snaps[1].done) = 1
    /\ BagSize(snaps[2].done) = 3
    /\ SerializedCount(svcKind, snaps[2].out.bytes) = 3

(***************************************************************************)
(* The decodable list of the RIBLT decoder, checked under SpecPeel.        *)
(***************************************************************************)
\* A holds every element at least as often as B does
SupersetSketches ==
    /\ pkMode = "riblt"
    /\ \A t \in RElems : CountIn(sb, t) <= CountIn(sa, t)

\* C21: decodable-once -- when the difference of a superset sketch and a
\* subset sketch is peeled, no cell index is in `decodable` twice, the cell
\* the loop is about to process has count 1 or 0, and neither panic of
\* try_decode is reached.
C21_DecodableOnce ==
    SupersetSketches
    => /\ pkPhase # "panicked"
       /\ DistinctSeq(dec.self.decodable)
       /\ (pkPhase = "decoding" /\ dec.didx < dec.stop)
          => dec.self.cs[dec.self.decodable[dec.didx + 1] + 1].count \in {0, 1}

\* the loop has peeled a cell of a difference with a non-empty subset side,
\* and the cell taken next went from count 1 to 0 in the meantime
C21_Witness ==
    /\ SupersetSketches /\ pkPhase = "decoding"
    /\ Len(sb) >= 1
    /\ Len(dec.peeled) >= 1
    /\ dec.didx < dec.stop
    /\ dec.self.cs[dec.self.decodable[dec.didx + 1] + 1].count = 0

(***************************************************************************)
(* The difference IBLT and its peeling inside validate, checked under      *)
(* SpecAcc on every accumulator and log the run reaches.                   *)
(***************************************************************************)
\* how many of the hash positions of the log's elements fall on cell i, and
\* the sum of the images that fall on it
C22_LoggedCount(i) ==
    SumSeq([n \in 1..Len(log) |->
               CountIn(IbltIndexes(acc.iblt, elem_to_u32(log[n])), i - 1)])

C22_LoggedData(i) ==
    SumSeq([n \in 1..Len(log) |->
               elem_to_u32(log[n])
                 * CountIn(IbltIndexes(acc.iblt, elem_to_u32(log[n])), i - 1)])

C22_DiffCount(i) ==
    (C22_LoggedCount(i) + Pow(2, acc.iblt.bits_per_entry) * WordMod
        - acc.iblt.counters[i]) % Pow(2, acc.iblt.bits_per_entry)

C22_DiffData(i) ==
    (C22_LoggedData(i) + WordMod - acc.iblt.data[i]) % WordMod

C22_Result ==
    calculate_difference_iblt(Len(log) - IbltAccTotal(acc), log, acc.iblt)

\* C22: calculate_difference_iblt returns a difference IBLT iff no cell has
\* difference counter 0 with non-zero difference data and the counters add
\* up to num_hashes * n_dropped, and None otherwise; on success every cell
\* holds the counter difference mod 2^bits_per_entry and the data
\* difference mod 2^32.  validate stops with Invalid exactly on None.
C22_DifferenceIblt ==
    (kind = "iblt" /\ Len(log) >= IbltAccTotal(acc))
    => LET cells == 1..acc.iblt.num_entries
           n_dropped == Len(log) - IbltAccTotal(acc)
       IN /\ C22_Result.some <=>
               /\ \A i \in cells : ~(C22_DiffCount(i) = 0 /\ C22_DiffData(i) # 0)
               /\ SumSeq([i \in cells |-> C22_DiffCount(i)])
                    = acc.iblt.num_hashes * n_dropped
          /\ C22_Result.some =>
               \A i \in cells :
                   /\ C22_Result.iblt.counters[i] = C22_DiffCount(i)
                   /\ C22_Result.iblt.data[i] = C22_DiffData(i)
          /\ (Validated /\ n_dropped > 0) =>
               (verdict.stage = "difference" <=> ~C22_Result.some)

\* validate went past an accepted difference whose counters wrapped: the
\* router processed an element the log does not hold
C22_Witness ==
    /\ kind = "iblt" /\ Validated
    /\ Len(log) - IbltAccTotal(acc) >= 2
    /\ C22_Result.some
    /\ verdict.stage # "difference"
    /\ ~Honest

\* C23: eliminate_elems never peels the same image twice -- on every
\* difference IBLT that calculate_difference_iblt accepts, from an honest
\* or a malicious router, the assertion on the removed set holds and
\* validate returns instead of failing.
C23_PeelOnce ==
    (kind = "iblt" /\ Validated)
    => ~(verdict.result = "Panic" /\ verdict.stage = "eliminate")

(***************************************************************************)
(* The CBF accumulator, checked under SpecAcc.                             *)
(***************************************************************************)
\* the CBF the verifier would build from the log in the stored cell frame
C24_LoggedCbf == CbfInsertAll(CbfEmptyClone(acc.cbf), log)

\* the bit-XOR of the elements the router processed, from the multiset
C24_XorProcessed == XorAddAll(XorNew, BagToSeq(processed))

C24_NoDrops == Validated /\ kind = "cbf" /\ Len(log) = CbfAccTotal(acc)

C25_Processes(e) == processed'[e] = processed[e] + 1

C25_CbfFull(e) ==
    /\ kind = "cbf" /\ ~acc.cbf.overflow
    /\ \E n \in 1..acc.cbf.num_hashes :
         acc.cbf.counters[CbfIndexes(acc.cbf, e)[n] + 1] = MaxValue(acc.cbf)

C25_IbltFull(e) ==
    /\ kind = "iblt"
    /\ \E n \in 1..acc.iblt.num_hashes :
         acc.iblt.counters[IbltIndexes(acc.iblt, elem_to_u32(e))[n] + 1]
           = MaxValue(acc.iblt)

\* how often cell i is among the hash positions of e in the IBLT
C25_Hits(e, i) == CountIn(IbltIndexes(acc.iblt, elem_to_u32(e)), i - 1)

\* C25: counter overflow policy -- CountingBloomFilter.insert of an element
\* one of whose cells holds max_value panics and wraps no counter, whereas
\* InvBloomLookupTable.insert in the same situation wraps the counter and
\* still adds the element's image to the cell's data modulo 2^32.
C25_OverflowPolicy ==
    [][\A e \in Elems :
          C25_Processes(e) =>
            /\ C25_CbfFull(e) =>
                 /\ acc'.cbf.overflow /\ phase' = "crashed"
                 /\ \A i \in 1..acc.cbf.num_entries :
                        acc'.cbf.counters[i] >= acc.cbf.counters[i]
            /\ C25_IbltFull(e) =>
                 /\ phase' = phase
                 /\ \A i \in 1..acc.iblt.num_entries :
                      /\ acc'.iblt.counters[i] =
                           (acc.iblt.counters[i] + C25_Hits(e, i))
                             % (MaxValue(acc.iblt) + 1)
                      /\ acc'.iblt.data[i] =
                           (acc.iblt.data[i] + C25_Hits(e, i) * elem_to_u32(e))
                             % WordMod]_vars

\* a CBF accumulator whose insert met a full counter
C25_Witness ==
    /\ kind = "cbf" /\ phase = "crashed" /\ acc.cbf.overflow
    /\ \E i \in 1..acc.cbf.num_entries : acc.cbf.counters[i] = MaxValue(acc.cbf)

(***************************************************************************)
(* Arithmetic of the power-sum validate, checked under SpecAcc.            *)
(***************************************************************************)
\* C26: modular division -- div_and_mod(a, b) returns the x in [0, q) with
\* x * b = a (mod q) for every a in [0, q) and b in [1, q) without failing,
\* so the coefficients are computed for every power-sum vector that
\* validate meets.
C26_DivAndMod ==
    (Validated /\ kind = "psum")
    => /\ \A a \in 0..(LARGE_PRIME - 1), b \in 1..(LARGE_PRIME - 1) :
            /\ div_and_mod(a, b) \in 0..(LARGE_PRIME - 1)
            /\ mul_and_mod(div_and_mod(a, b), b) = a
       /\ ~(verdict.result = "Panic" /\ verdict.stage = "coefficients")

\* the masked images of the log, as validate hands them to the workers
C27_Images == [n \in 1..Len(log) |-> PsumImage(log[n])]

\* the slices of the workers i, i + 1, ..., ncpus - 1, one after another
RECURSIVE C27_Slices(_, _, _)
C27_Slices(elems, ncpus, i) ==
    IF i = ncpus THEN <<>>
    ELSE WorkerSlice(elems, ncpus, i) \o C27_Slices(elems, ncpus, i + 1)

\* C27: calculate_power_sums(elems, n) is, for j = 1..n, the sum of x^j mod
\* q over all elems, whatever the number of worker tasks and the range
\* partition (also with more workers than elements); every element is
\* counted by exactly one worker.
C27_PowerSums ==
    kind = "psum"
    => \A ncpus \in 1..(MaxLog + 1), n \in 1..MaxThreshold :
         /\ calculate_power_sums(C27_Images, n, ncpus) =
              [j \in 1..n |->
                  SumSeq([k \in 1..Len(log) |->
                             Pow(C27_Images[k], j) % LARGE_PRIME])
                    % LARGE_PRIME]
         /\ C27_Slices(C27_Images, ncpus, 0) = C27_Images

\* validate has computed the power sums of a log of three elements, which
\* two workers split unevenly and four workers leave to the last one
C27_Witness ==
    /\ kind = "psum" /\ Validated
    /\ Len(log) = 3
    /\ verdict.stage \notin {"empty", "size", "threshold", "digest"}
    /\ WorkerSlice(C27_Images, 2, 1) = SubSeq(C27_Images, 2, 3)
    /\ WorkerSlice(C27_Images, 4, 0) = <<>>

\* the map of dropped counts that validate builds from the dropped
\* positions S of the log (-1: no entry)
C28_DroppedCount(S) ==
    [e \in Elems |->
        LET c == Cardinality({i \in S : log[i] = e})
        IN IF c = 0 THEN -1 ELSE c]

\* the XOR digest of the log without the positions of S
RECURSIVE C28_DigestWithout(_, _)
C28_DigestWithout(S, n) ==
    IF n = 0 THEN XorNew
    ELSE IF n \in S THEN C28_DigestWithout(S, n - 1)
         ELSE XorAdd(C28_DigestWithout(S, n - 1), log[n])

\* C28: check_digest(elems, dropped_count, expected) recomputes the digest
\* over elems leaving out exactly dropped_count[e] occurrences of each
\* element e, every further occurrence being added, and compares it with
\* expected; so dropping one copy of an element that occurs several times
\* in the log still counts the other copies as received.
C28_CheckDigest ==
    kind = "cbf"
    => \A S \in SUBSET (1..Len(log)) :
         /\ CheckDigestLoop(log, C28_DroppedCount(S), XorNew) =
              C28_DigestWithout(S, Len(log))
         /\ \A expected \in {XorNew, C28_DigestWithout(S, Len(log))} :
              check_digest(log, C28_DroppedCount(S), expected) =
                (C28_DigestWithout(S, Len(log)) = expected)

\* the mapping of t after n calls of next_index
RECURSIVE C29_Mapping(_, _)
C29_Mapping(t, n) ==
    IF n = 0 THEN RandomMappingNew(t) ELSE next_index(C29_Mapping(t, n - 1))

\* the cells of a sketch of len cells that the mapping of t covers
C29_Covered(t, len) ==
    {C29_Mapping(t, n).last_index : n \in 0..len} \cap (0..(len - 1))

\* the last insert or remove has applied its element once to each covered
\* cell and has left the other cells alone
C29_TouchedOnce ==
    LET t == last.arg
        len == Len(last.before.sketch)
        direction == IF last.op = "insert" THEN ADD ELSE REMOVE
    IN /\ Len(last.after.sketch) = len
       /\ \A i \in 1..len :
            last.after.sketch[i] =
              IF (i - 1) \in C29_Covered(t, len)
              THEN CodedApply(last.before.sketch[i], t, direction)
              ELSE last.before.sketch[i]

\* the index sequence of t starts at 0 and strictly increases at every
\* call of next_index made by the loop over a sketch of len cells
C29_Increases(t, len) ==
    /\ C29_Mapping(t, 0).last_index = 0
    /\ \A n \in 0..len :
         C29_Mapping(t, n).last_index < len
         => C29_Mapping(t, n + 1).last_index > C29_Mapping(t, n).last_index

\* C29: IBLTQuackU32 insert and remove terminate for every element and
\* every sketch length: the RandomMapping index sequence of an element
\* starts at 0, is a deterministic function of the element, and strictly
\* increases at every next_index call until it is at least the sketch
\* length (here up to a sketch of u16::MAX + 1 cells), so each call touches
\* each covered cell exactly once.
C29_MappingTerminates ==
    (opImpl = "riblt" /\ last.op \in {"insert", "remove"})
    => /\ C29_TouchedOnce
       /\ \A len \in 0..(FarIndex + 1) : C29_Increases(last.arg, len)

\* validate succeeds for the log without its last k packets exactly when
\* k <= K
C30_Threshold(K) ==
    \A k \in 0..(logsLen - accTotal) : validates[k + 1] <=> k <= K

\* C30: check_truncation(accumulator, logs) terminates and returns the
\* number of trailing log packets that can be truncated while the
\* accumulator still validates: when validate succeeds for the log with its
\* last k elements removed exactly when k <= K, for some K in
\* [0, |logs| - total()], the returned value is K.
C30_Truncation ==
    trPc = "returned"
    => \A K \in 0..(logsLen - accTotal) : C30_Threshold(K) => lo = K

=============================================================================
